---------------------------- MODULE Spec2Model ----------------------------
(***************************************************************************)
(* Model of the rox-icu host side: the CAN message codec                   *)
(* (src/rox_icu/can_protocol.py) and the ICU driver (src/rox_icu/core.py). *)
(*                                                                         *)
(* Two specifications:                                                     *)
(*   CodecSpec  applies the pure codec functions to inputs drawn from      *)
(*              bounded sets (identifier arithmetic, encode, decode).      *)
(*   Spec       is the driver: receive thread, hand-off to the event loop, *)
(*              dispatch, liveness check and output commands.              *)
(***************************************************************************)
EXTENDS Integers, Sequences, FiniteSets, TLC

VARIABLES
    byteorder,            \* sys.byteorder of the host ("little" / "big")
    codec,                \* the last codec call: its inputs and its result
    now,                  \* time.time(), in ticks of 250 ms
    _running,             \* ICU._running
    _receive_thread,      \* ICU._receive_thread: where the thread is
    _msg_task,            \* ICU._msg_task: none, alive, cancelling, done
    timeout_warned,       \* local of _can_reader_thread
    loop_calls,           \* coroutines handed over by run_coroutine_threadsafe
    _msg_queue,           \* ICU._msg_queue
    _last_heartbeat,      \* ICU._last_heartbeat
    _last_heartbeat_time, \* ICU._last_heartbeat_time
    _heartbeat_event,     \* ICU._heartbeat_event is set
    _io_state,            \* ICU._io_state
    pins,                 \* ICU.pins: per pin _state, _previous_state, events
    sent,                 \* frames handed to bus.send, in order
    bus_shutdown,         \* bus.shutdown() has been called
    call,                 \* the last driver API call and how it ended
    hb_seen,              \* history: a Heartbeat frame has been dispatched
    hb_seen_at,           \* history: time of the last dispatched Heartbeat
    start,                \* the start() coroutine: where it is, and the
                          \* number of thread/task pairs spawned so far
    stop,                 \* the stop() coroutine: where it is
    waiters,              \* tasks waiting on the signals of a pin
    hist,                 \* history: calls of _uptate_io_state, edges of a
                          \* pin, frames received and frames dispatched
    mock,                 \* the ICUMock peer: _io_state, heartbeat counter
    wire                  \* frames on the bus the driver has not received yet

codecVars == <<byteorder, codec>>
sessionVars == <<_last_heartbeat, _last_heartbeat_time, _heartbeat_event,
                 _io_state, pins>>
driverVars == <<now, _running, _receive_thread, _msg_task, timeout_warned,
                loop_calls, _msg_queue, sessionVars, sent, bus_shutdown,
                call, hb_seen, hb_seen_at, start, stop, waiters, hist,
                mock, wire>>
vars == <<codecVars, driverVars>>

-----------------------------------------------------------------------------
(* Python integer bit operations on naturals.                              *)

RECURSIVE BitAnd(_, _)
BitAnd(a, b) ==
    IF a = 0 \/ b = 0 THEN 0
    ELSE (a % 2) * (b % 2) + 2 * BitAnd(a \div 2, b \div 2)

RECURSIVE BitOr(_, _)
BitOr(a, b) ==
    IF a = 0 THEN b
    ELSE IF b = 0 THEN a
    ELSE (IF a % 2 = 1 \/ b % 2 = 1 THEN 1 ELSE 0)
         + 2 * BitOr(a \div 2, b \div 2)

\* a & ~b for naturals a, b
RECURSIVE BitAndNot(_, _)
BitAndNot(a, b) ==
    IF a = 0 THEN 0
    ELSE (IF a % 2 = 1 /\ b % 2 = 0 THEN 1 ELSE 0)
         + 2 * BitAndNot(a \div 2, b \div 2)

ShiftLeft(a, n) == a * (2 ^ n)
ShiftRight(a, n) == a \div (2 ^ n)

-----------------------------------------------------------------------------
(* struct.pack / struct.unpack for the format characters the codec uses.   *)
(* A format is the sequence of its characters; a leading "<" selects       *)
(* little-endian standard layout, no prefix selects the host's byte order. *)

UINT8 == "B"
UINT32 == "I"

Ok(v) == [err |-> "none", val |-> v]
Raise(e) == [err |-> e, val |-> <<>>]

FormatCodes(fmt) == IF fmt # <<>> /\ fmt[1] = "<" THEN Tail(fmt) ELSE fmt
FormatOrder(fmt) == IF fmt # <<>> /\ fmt[1] = "<" THEN "little" ELSE byteorder

CodeSize(c) == IF c = UINT32 THEN 4 ELSE 1

RECURSIVE calcsize(_)
calcsize(codes) ==
    IF codes = <<>> THEN 0 ELSE CodeSize(Head(codes)) + calcsize(Tail(codes))

IntToBytes(v, n, order) ==
    [i \in 1..n |->
        LET k == IF order = "little" THEN i - 1 ELSE n - i
        IN  (v \div (256 ^ k)) % 256]

RECURSIVE BytesToInt(_, _)
BytesToInt(bs, order) ==
    IF bs = <<>> THEN 0
    ELSE IF order = "little"
         THEN Head(bs) + 256 * BytesToInt(Tail(bs), order)
         ELSE Head(bs) * (256 ^ (Len(bs) - 1)) + BytesToInt(Tail(bs), order)

RECURSIVE PackFields(_, _, _)
PackFields(codes, vals, order) ==
    IF codes = <<>> THEN <<>>
    ELSE IntToBytes(Head(vals), CodeSize(Head(codes)), order)
         \o PackFields(Tail(codes), Tail(vals), order)

RECURSIVE UnpackFields(_, _, _)
UnpackFields(codes, data, order) ==
    IF codes = <<>> THEN <<>>
    ELSE LET n == CodeSize(Head(codes))
         IN  <<BytesToInt(SubSeq(data, 1, n), order)>>
             \o UnpackFields(Tail(codes), SubSeq(data, n + 1, Len(data)), order)

struct_pack(fmt, vals) ==
    LET codes == FormatCodes(fmt)
    IN  IF Len(codes) # Len(vals)
           \/ \E i \in 1..Len(codes) :
                 \/ vals[i] < 0
                 \/ vals[i] \div 256 >= 256 ^ (CodeSize(codes[i]) - 1)
        THEN Raise("struct.error")
        ELSE Ok(PackFields(codes, vals, FormatOrder(fmt)))

\* variant of struct_unpack that, like struct.unpack_from, reads a prefix of
\* a longer buffer
struct_unpack_prefix(fmt, data) ==
    LET codes == FormatCodes(fmt)
    IN  IF Len(data) < calcsize(codes)
        THEN Raise("struct.error")
        ELSE Ok(UnpackFields(codes, SubSeq(data, 1, calcsize(codes)),
                             FormatOrder(fmt)))
struct_unpack(fmt, data) ==
    LET codes == FormatCodes(fmt)
    IN  IF Len(data) # calcsize(codes)
        THEN Raise("struct.error")
        ELSE Ok(UnpackFields(codes, data, FormatOrder(fmt)))

-----------------------------------------------------------------------------
(* can_protocol.py: parameters, message definitions and lookup tables.     *)

\* variant of device_parameters without test_param
device_parameters_no_test_param ==
    { <<"io_state", 0, UINT8>>, <<"device_state", 1, UINT8>>,
      <<"error_max1", 2, UINT8>>, <<"error_max2", 3, UINT8>> }
device_parameters ==
    { <<"io_state", 0, UINT8>>, <<"device_state", 1, UINT8>>,
      <<"error_max1", 2, UINT8>>, <<"error_max2", 3, UINT8>>,
      <<"test_param", 255, UINT32>> }

\* variant of params_byte_defs that gives every parameter 32 bits
params_byte_defs_all_uint32 ==
    [id \in {p[2] : p \in device_parameters} |-> <<UINT32>>]
params_byte_defs ==
    [id \in {p[2] : p \in device_parameters} |->
        LET p == CHOOSE q \in device_parameters : q[2] = id IN <<p[3]>>]

\* a namedtuple value: its class and its fields in declaration order
Msg(type, fields) == [type |-> type, fields |-> fields]

MsgFieldNames ==
    [HaltMessage |-> <<"io_state">>,
     HeartbeatMessage |->
        <<"device_type", "io_dir", "io_state", "errors", "counter">>,
     IoStateMessage |-> <<"io_state">>,
     SetIoMessage |-> <<"io_state">>,
     ParameterMessage |-> <<"param_id", "value">>,
     GetParameterMessage |-> <<"param_id">>,
     SetParameterMessage |-> <<"param_id", "value">>]

\* attribute access on a namedtuple
Field(msg, name) ==
    LET names == MsgFieldNames[msg.type]
    IN  msg.fields[CHOOSE i \in 1..Len(names) : names[i] = name]

\* variant of the list with IoStateMessage and SetIoMessage exchanged
MsgDefList_swapped ==
    << <<"HaltMessage", <<"<", "B">> >>,
       <<"HeartbeatMessage", <<"<", "B", "B", "B", "B", "B">> >>,
       <<"SetIoMessage", <<"<", "B">> >>,
       <<"IoStateMessage", <<"<", "B">> >>,
       <<"ParameterMessage", <<>> >>,
       <<"GetParameterMessage", <<"<", "B">> >>,
       <<"SetParameterMessage", <<>> >> >>
\* the list _MSG_DEFS enumerates; <<>> stands for the byte_def None
MsgDefList ==
    << <<"HaltMessage", <<"<", "B">> >>,
       <<"HeartbeatMessage", <<"<", "B", "B", "B", "B", "B">> >>,
       <<"IoStateMessage", <<"<", "B">> >>,
       <<"SetIoMessage", <<"<", "B">> >>,
       <<"ParameterMessage", <<>> >>,
       <<"GetParameterMessage", <<"<", "B">> >>,
       <<"SetParameterMessage", <<>> >> >>

\* message class -> (opcode, byte_def); opcode is the position in the list
_MSG_DEFS ==
    [t \in {MsgDefList[i][1] : i \in 1..Len(MsgDefList)} |->
        LET i == CHOOSE j \in 1..Len(MsgDefList) : MsgDefList[j][1] = t
        IN  <<i - 1, MsgDefList[i][2]>>]

_OPCODE2MSG ==
    [op \in {_MSG_DEFS[t][1] : t \in DOMAIN _MSG_DEFS} |->
        CHOOSE t \in DOMAIN _MSG_DEFS : _MSG_DEFS[t][1] = op]

\* variant of generate_message_id that shifts the node by 4 bits only
generate_message_id_shift4(node_id, opcode) ==
    BitOr(ShiftLeft(node_id, 4), opcode)
generate_message_id(node_id, opcode) == BitOr(ShiftLeft(node_id, 5), opcode)

\* variant of split_message_id that masks 4 opcode bits only
split_message_id_mask4(message_id) ==
    <<ShiftRight(message_id, 5), BitAnd(message_id, 15)>>
\* returns <<node_id, opcode>>
split_message_id(message_id) ==
    <<ShiftRight(message_id, 5), BitAnd(message_id, 31)>>

get_node_id(message_id) == ShiftRight(message_id, 5)

get_opcode_and_bytedef(message_class) ==
    IF message_class \in DOMAIN _MSG_DEFS
    THEN Ok(_MSG_DEFS[message_class])
    ELSE Raise("KeyError")

\* returns Ok(<<arbitration_id, data_bytes>>) or the exception raised
encode_message(message, node_id) ==
    LET def == get_opcode_and_bytedef(message.type)
    IN  IF def.err # "none" THEN def
        ELSE
        LET opcode == def.val[1]
            arbitration_id == generate_message_id(node_id, opcode)
            is_param == message.type \in {"ParameterMessage", "SetParameterMessage"}
            param_id == message.fields[1]
        IN  IF is_param /\ param_id \notin DOMAIN params_byte_defs
            THEN Raise("KeyError")
            ELSE
            LET byte_def == IF is_param
                            THEN <<"<", "B">> \o params_byte_defs[param_id]
                            ELSE def.val[2]
                packed == struct_pack(byte_def, message.fields)
            IN  IF packed.err # "none" THEN packed
                ELSE Ok(<<arbitration_id, packed.val>>)

\* variant of decode_opcode that masks 4 bits only
decode_opcode_mask4(arb_id) == BitAnd(arb_id, 15)
\* decode_message, line 197: opcode = arb_id & 0x1F
decode_opcode(arb_id) == BitAnd(arb_id, 31)

\* returns Ok(message) or the exception raised
decode_message(arb_id, data) ==
    LET opcode == decode_opcode(arb_id)
    IN  IF opcode \notin DOMAIN _OPCODE2MSG THEN Raise("KeyError")
        ELSE
        LET message_class == _OPCODE2MSG[opcode]
        IN  IF message_class = "ParameterMessage"
               \/ message_class = "SetParameterMessage"
            THEN IF data = <<>> THEN Raise("IndexError")
                 ELSE
                 LET param_id == data[1]
                 IN  IF param_id \notin DOMAIN params_byte_defs
                     THEN Raise("KeyError")
                     ELSE
                     LET value == struct_unpack(params_byte_defs[param_id],
                                                Tail(data))
                     IN  IF value.err # "none" THEN value
                         ELSE Ok(Msg("ParameterMessage",
                                     <<param_id, value.val[1]>>))
            ELSE LET fields == struct_unpack(_MSG_DEFS[message_class][2], data)
                 IN  IF fields.err # "none" THEN fields
                     ELSE Ok(Msg(message_class, fields.val))

-----------------------------------------------------------------------------
(* Protocol ranges and the inputs the codec is applied to.                 *)

MaxNodeId == 63
MaxOpcode == 31
MaxMessageId == 2047
NODE_ID == 42

NodeIds == 0..MaxNodeId
Opcodes == 0..MaxOpcode
MessageIds == 0..MaxMessageId

ByteSamples == {0, 1, 128, 255}
ParamIdSamples == {0, 1, 3, 4, 255}
\* the model's integers end at 2^31 - 1: the upper half of u32 is left out
ValueSamples == {-1, 0, 1, 255, 256, 16909060, 2147483647}
NodeSamples == {0, 1, NODE_ID, MaxNodeId}

MessageSamples ==
    {Msg(t, <<b>>) : t \in {"HaltMessage", "IoStateMessage", "SetIoMessage"},
                     b \in ByteSamples}
    \cup {Msg("HeartbeatMessage", f) : f \in [1..5 -> ByteSamples]}
    \cup {Msg("GetParameterMessage", <<p>>) : p \in ParamIdSamples}
    \cup {Msg(t, <<p, v>>) : t \in {"ParameterMessage", "SetParameterMessage"},
                             p \in ParamIdSamples, v \in ValueSamples}

\* received data: 0..8 bytes (one CAN frame); the first byte, which selects
\* the parameter in parameter messages, ranges wider than the rest
DataLengths == 0..8
FirstByteSamples == {0, 1, 3, 4, 128, 255}
RestByteSamples == {0, 255}
DataSamples ==
    {<<>>} \cup
    UNION { {<<f>> \o r : f \in FirstByteSamples,
                          r \in [1..(n - 1) -> RestByteSamples]}
            : n \in DataLengths \ {0} }

\* a parameter frame whose first 32-bit value, read in either byte order, is
\* 2^31 or more is beyond the model's integers
ValueFits(opcode, data) ==
    ~ /\ opcode \in {4, 6}
      /\ Len(data) >= 5
      /\ data[1] = 255
      /\ (data[2] >= 128 \/ data[5] >= 128)

Idle == [op |-> "idle"]

CodecInit ==
    /\ byteorder \in {"little", "big"}
    /\ codec = Idle

\* generate_message_id, then split_message_id / get_node_id of its result
GenerateIdCall ==
    /\ codec.op = "idle"
    /\ \E n \in NodeIds, o \in Opcodes :
          LET id == generate_message_id(n, o)
          IN  codec' = [op |-> "generate_id", node_id |-> n, opcode |-> o,
                        id |-> id, split |-> split_message_id(id),
                        node |-> get_node_id(id)]
    /\ UNCHANGED <<byteorder, driverVars>>

SplitIdCall ==
    /\ codec.op = "idle"
    /\ \E id \in MessageIds :
          codec' = [op |-> "split_id", id |-> id,
                    split |-> split_message_id(id), node |-> get_node_id(id)]
    /\ UNCHANGED <<byteorder, driverVars>>

EncodeCall ==
    /\ codec.op = "idle"
    /\ \E m \in MessageSamples, n \in NodeSamples :
          codec' = [op |-> "encode", msg |-> m, node_id |-> n,
                    res |-> encode_message(m, n)]
    /\ UNCHANGED <<byteorder, driverVars>>

\* decode_message applied to the frame encode_message has just produced
DecodeEncodedCall ==
    /\ codec.op = "encode"
    /\ codec.res.err = "none"
    /\ ValueFits(codec.res.val[1] % 32, codec.res.val[2])
    /\ codec' = [op |-> "roundtrip", msg |-> codec.msg,
                 node_id |-> codec.node_id, enc |-> codec.res.val,
                 res |-> decode_message(codec.res.val[1], codec.res.val[2])]
    /\ UNCHANGED <<byteorder, driverVars>>

\* decode_message applied to a received frame
DecodeCall ==
    /\ codec.op = "idle"
    /\ \E n \in NodeSamples, o \in Opcodes, d \in DataSamples :
          LET id == n * 32 + o
          IN  /\ ValueFits(o, d)
              /\ codec' = [op |-> "decode", arb_id |-> id, data |-> d,
                            res |-> decode_message(id, d)]
    /\ UNCHANGED <<byteorder, driverVars>>

CodecReturn ==
    /\ codec.op # "idle"
    /\ codec' = Idle
    /\ UNCHANGED <<byteorder, driverVars>>

CodecNext ==
    \/ GenerateIdCall
    \/ SplitIdCall
    \/ EncodeCall
    \/ DecodeEncodedCall
    \/ DecodeCall
    \/ CodecReturn

-----------------------------------------------------------------------------
(* core.py: the ICU driver.  Time is counted in ticks of 250 ms.           *)

MESSAGE_TIMEOUT == 4        \* 1.0 s
HEARTBEAT_TIMEOUT == 2      \* 0.5 s
WAIT_FOR_HEARTBEAT_TIMEOUT == 4   \* wait_for_heartbeat(timeout=1.0)
JOIN_TIMEOUT == 4           \* self._receive_thread.join(timeout=1.0)

\* bounds of the model
EpochStart == 3      \* time.time() when the driver is constructed
RunTicks == 6        \* the clock stops this many ticks later
MaxQueue == 1        \* frames in the hand-off (scheduled puts + queue)
MaxStops == 2        \* calls of stop()

MaxTime == EpochStart + RunTicks

None == Msg("None", <<>>)
Returned == [exc |-> "none", text |-> ""]
Exc(type, text) == [exc |-> type, text |-> text]

\* the names can_protocol.py binds at module level (attribute access on canp)
CanpNames ==
    {"VERSION", "BOOL", "UINT8", "INT8", "UINT16", "INT16", "UINT32", "INT32",
     "FLOAT", "Operation", "device_parameters", "params_byte_defs",
     "HaltMessage", "HeartbeatMessage", "IoStateMessage", "SetIoMessage",
     "ParameterMessage", "GetParameterMessage", "SetParameterMessage",
     "_MSG_DEFS", "_OPCODE2MSG", "generate_message_id", "split_message_id",
     "get_node_id", "get_opcode_and_bytedef", "encode_message",
     "decode_message"}

canp_getattr(name) ==
    IF name \in CanpNames THEN Ok(name) ELSE Raise("AttributeError")

\* AutoClearEvent.__init__
NewEvent == [flag |-> FALSE, _active_waiters |-> 0]
\* asyncio.Event.set
EventSet(ev) == [ev EXCEPT !.flag = TRUE]

\* Pin.__init__
NewPin(number) ==
    [_number |-> number, _is_input |-> FALSE, _state |-> FALSE,
     _previous_state |-> FALSE, high_event |-> NewEvent,
     low_event |-> NewEvent, change_event |-> NewEvent]

\* variant of Pin._update that raises both direction signals on any edge
Pin_update_both(pin, new_state) ==
    IF new_state = pin._state THEN pin
    ELSE [pin EXCEPT !._previous_state = pin._state,
                     !._state = new_state,
                     !.change_event = EventSet(pin.change_event),
                     !.high_event = EventSet(pin.high_event),
                     !.low_event = EventSet(pin.low_event)]
\* variant of Pin._update that raises the signal of the other direction
Pin_update_inverted(pin, new_state) ==
    IF new_state = pin._state THEN pin
    ELSE LET p == [pin EXCEPT !._previous_state = pin._state,
                              !._state = new_state,
                              !.change_event = EventSet(pin.change_event)]
         IN  IF new_state
             THEN [p EXCEPT !.low_event = EventSet(pin.low_event)]
             ELSE [p EXCEPT !.high_event = EventSet(pin.high_event)]
\* Pin._update
Pin_update(pin, new_state) ==
    IF new_state = pin._state THEN pin
    ELSE LET p == [pin EXCEPT !._previous_state = pin._state,
                              !._state = new_state,
                              !.change_event = EventSet(pin.change_event)]
         IN  IF new_state
             THEN [p EXCEPT !.high_event = EventSet(pin.high_event)]
             ELSE [p EXCEPT !.low_event = EventSet(pin.low_event)]

PinNumbers == 0..7

\* ICU._uptate_io_state: the new pins
UpdatedPins(io_state) ==
    [i \in PinNumbers |->
        Pin_update(pins[i], BitAnd(io_state, ShiftLeft(1, i)) # 0)]

\* a can.Message as the transport delivers it
Frame(id, data, rtr) ==
    [arbitration_id |-> id, data |-> data, is_remote_frame |-> rtr]

HeartbeatFrame(node, io) ==
    Frame(generate_message_id(node, 1), <<1, 0, io, 0, 7>>, FALSE)

\* what bus.recv may return: frames of this node and of another node,
\* well-formed and malformed, data and remote-request frames
BusFrames ==
    { HeartbeatFrame(NODE_ID, 0), HeartbeatFrame(NODE_ID, 1),
      HeartbeatFrame(NODE_ID + 1, 1),
      Frame(generate_message_id(NODE_ID, 2), <<1>>, FALSE),
      Frame(generate_message_id(NODE_ID, 1), <<1, 0, 1, 0, 7, 0>>, FALSE),
      Frame(generate_message_id(NODE_ID, 12), <<1>>, FALSE),
      Frame(generate_message_id(NODE_ID, 1), <<>>, TRUE) }

\* tasks that wait on the signals of one pin
Waiters == {1, 2}
WaitPin == 0
EventNames == {"high_event", "low_event", "change_event"}
\* a task that is going to loop on wait() of the signal ev; n counts the
\* returns of wait(), from is the number of updates before its first call
IdleWaiter(ev) == [pc |-> "idle", ev |-> ev, n |-> 0, from |-> -1]

\* ICU.__init__
ICU_init ==
    /\ now = EpochStart
    /\ _running = TRUE
    /\ _receive_thread = [pc |-> "none", since |-> 0]
    /\ _msg_task = "none"
    /\ timeout_warned = FALSE
    /\ loop_calls = <<>>
    /\ _msg_queue = <<>>
    /\ _last_heartbeat = None
    /\ _last_heartbeat_time = 0
    /\ _heartbeat_event = FALSE
    /\ _io_state = 0
    /\ pins = [i \in PinNumbers |-> NewPin(i)]
    /\ sent = <<>>
    /\ bus_shutdown = FALSE
    /\ start = [pc |-> "idle", since |-> 0, spawned |-> 0]
    /\ stop = [pc |-> "idle", since |-> 0, calls |-> 0, first |-> <<>>]
    /\ hist = [updates |-> 0, change_event |-> 0, high_event |-> 0,
               low_event |-> 0, set_high_at |-> -1, received |-> <<>>,
               applied |-> <<>>, last_io |-> -1, log |-> <<>>,
               restarts |-> 0, orphan_exits |-> 0]
    /\ call = [op |-> "none"]
    /\ hb_seen = FALSE
    /\ hb_seen_at = 0

\* ICUMock.__init__ (heartbeat_loop: counter = 0), and an empty bus
PeerInit ==
    /\ mock = [_io_state |-> 0, counter |-> 0, hb_at |-> 0, read |-> 0,
               commands |-> 0]
    /\ wire = <<>>

\* the driver, and no task waiting on a pin yet
DriverInit ==
    /\ ICU_init
    /\ waiters = [w \in Waiters |-> IdleWaiter("change_event")]
    /\ PeerInit

NoCall == [op |-> "none"]

\* threading.Thread.is_alive of the receive thread
ThreadAlive == _receive_thread.pc \in {"loop", "recv"}

\* variant of check_alive that already fails at exactly HEARTBEAT_TIMEOUT
check_alive_ge ==
    IF _last_heartbeat = None
    THEN Exc("HeartbeatError", "Error: No heartbeat message received.")
    ELSE IF now - _last_heartbeat_time >= HEARTBEAT_TIMEOUT
         THEN Exc("HeartbeatError", "Error: Heartbeat message timeout.")
         ELSE Returned
\* ICU.check_alive: how the call ends
check_alive ==
    IF _last_heartbeat = None
    THEN Exc("HeartbeatError", "Error: No heartbeat message received.")
    ELSE IF now - _last_heartbeat_time > HEARTBEAT_TIMEOUT
         THEN Exc("HeartbeatError", "Error: Heartbeat message timeout.")
         ELSE Returned

\* variant of the io_state setter that does not call check_alive
io_state_setter_unchecked(state) ==
    LET cls == canp_getattr("IOSetMessage")
    IN  IF cls.err # "none" THEN [result |-> Exc(cls.err, "IOSetMessage"),
                                  sent |-> sent]
        ELSE LET enc == encode_message(Msg(cls.val, <<state>>), NODE_ID)
             IN  IF enc.err # "none"
                 THEN [result |-> Exc(enc.err, ""), sent |-> sent]
                 ELSE [result |-> Returned,
                       sent |-> Append(sent,
                                [arbitration_id |-> enc.val[1],
                                 data |-> enc.val[2],
                                 is_extended_id |-> FALSE])]
\* ICU.io_state setter: how the call ends and what bus.send has been given
io_state_setter(state) ==
    LET alive == check_alive
    IN  IF alive.exc # "none" THEN [result |-> alive, sent |-> sent]
        ELSE
        LET cls == canp_getattr("IOSetMessage")
        IN  IF cls.err # "none" THEN [result |-> Exc(cls.err, "IOSetMessage"),
                                      sent |-> sent]
            ELSE LET enc == encode_message(Msg(cls.val, <<state>>), NODE_ID)
                 IN  IF enc.err # "none"
                     THEN [result |-> Exc(enc.err, ""), sent |-> sent]
                     ELSE [result |-> Returned,
                           sent |-> Append(sent,
                                    [arbitration_id |-> enc.val[1],
                                     data |-> enc.val[2],
                                     is_extended_id |-> FALSE])]

\* Pin.state setter (the pin's parent is the driver)
Pin_state_setter(n, new_state) ==
    IF pins[n]._is_input
    THEN [result |-> Exc("ValueError", "pin is read-only"), sent |-> sent]
    ELSE io_state_setter(
            BitOr(BitAndNot(_io_state, ShiftLeft(1, n)),
                  ShiftLeft(IF new_state THEN 1 ELSE 0, n)))

Snapshot == [session |-> sessionVars, sent |-> sent, now |-> now]

\* asyncio.Event.set resolves the future of every task suspended in wait():
\* the waiters after the pins have become newpins
WokenBy(newpins) ==
    [w \in Waiters |->
        IF waiters[w].pc = "suspended" /\ newpins[WaitPin][waiters[w].ev].flag
        THEN [waiters[w] EXCEPT !.pc = "woken"]
        ELSE waiters[w]]

\* variant of the finally clause that clears the signal whatever the count
WaitDone_clear(ev) ==
    [flag |-> FALSE, _active_waiters |-> ev._active_waiters - 1]
\* AutoClearEvent.wait, the finally clause: one waiter less, clear at zero
WaitDone(ev) ==
    [flag |-> IF ev._active_waiters - 1 = 0 THEN FALSE ELSE ev.flag,
     _active_waiters |-> ev._active_waiters - 1]

-----------------------------------------------------------------------------
(* The driver's steps.                                                     *)

NoFrame == Frame(0, <<>>, FALSE)   \* stands for recv returning None
IoSamples == {0, 1, 129}
PinSamples == {0, 7}

\* stop() is blocked inside threading.Thread.join (which returns at once
\* for a thread that has ended): the event loop runs nothing else
LoopBlocked == stop.pc = "join" /\ ThreadAlive

\* a timeout that has expired and has not been acted on yet
TimerDue ==
    \/ _receive_thread.pc = "recv"
          /\ now - _receive_thread.since >= MESSAGE_TIMEOUT
    \/ LoopBlocked /\ now - stop.since >= JOIN_TIMEOUT
    \/ ~LoopBlocked /\ start.pc = "waiting"
          /\ now - start.since >= WAIT_FOR_HEARTBEAT_TIMEOUT

\* the event loop has a callback or a task that is ready to run
LoopReady ==
    \/ loop_calls # <<>>
    \/ _msg_task = "alive" /\ _running /\ _msg_queue # <<>>
    \/ _msg_task = "cancelling"
    \/ start.pc = "waiting" /\ _heartbeat_event
    \/ stop.pc = "await_task" /\ _msg_task = "done"
    \/ stop.pc = "join" /\ ~ThreadAlive
    \/ \E w \in Waiters : waiters[w].pc = "woken"

peerVars == <<mock, wire>>
testVars == <<waiters, hist, peerVars>>

otherThanCall == <<now, _running, _receive_thread, _msg_task, timeout_warned,
                   loop_calls, _msg_queue, sessionVars, bus_shutdown,
                   hb_seen, hb_seen_at, start, stop, testVars>>

\* time passes; expired timeouts, ready tasks and the receive thread
\* outside bus.recv run before the clock moves on, except that a blocked
\* event loop runs nothing
Tick ==
    /\ now < MaxTime
    /\ ~TimerDue
    /\ _receive_thread.pc # "loop"
    /\ LoopBlocked \/ ~LoopReady
    /\ now' = now + 1
    /\ call' = NoCall
    /\ UNCHANGED codecVars
    /\ UNCHANGED <<_running, _receive_thread, _msg_task, timeout_warned,
                   loop_calls, _msg_queue, sessionVars, sent, bus_shutdown,
                   hb_seen, hb_seen_at, start, stop, testVars>>

\* ICU.start up to its await: thread and task are spawned, then
\* wait_for_heartbeat clears the event and suspends.  The driver is started
\* once, and not after stop(), which shuts its bus down.
StartCall ==
    /\ start.pc = "idle"
    /\ stop.pc = "idle" /\ stop.calls = 0
    /\ _receive_thread' = [pc |-> "loop", since |-> 0]
    /\ _msg_task' = "alive"
    /\ _heartbeat_event' = FALSE
    /\ start' = [pc |-> "waiting", since |-> now, spawned |-> 1]
    /\ call' = NoCall
    /\ UNCHANGED codecVars
    /\ UNCHANGED <<now, _running, timeout_warned, loop_calls, _msg_queue,
                   _last_heartbeat, _last_heartbeat_time, _io_state, pins,
                   sent, bus_shutdown, hb_seen, hb_seen_at, stop, testVars>>

\* wait_for_heartbeat resumes on the event; start() returns
StartReturn ==
    /\ ~LoopBlocked
    /\ start.pc = "waiting"
    /\ _heartbeat_event
    /\ start' = [start EXCEPT !.pc = "returned"]
    /\ call' = NoCall
    /\ UNCHANGED codecVars
    /\ UNCHANGED <<now, _running, _receive_thread, _msg_task, timeout_warned,
                   loop_calls, _msg_queue, sessionVars, sent, bus_shutdown,
                   hb_seen, hb_seen_at, stop, testVars>>

\* variant of the timeout that does not wait for the time to pass
StartTimeout_early ==
    /\ ~LoopBlocked
    /\ start.pc = "waiting"
    /\ ~_heartbeat_event
    /\ start' = [start EXCEPT !.pc = "failed"]
    /\ call' = NoCall
    /\ UNCHANGED codecVars
    /\ UNCHANGED <<now, _running, _receive_thread, _msg_task, timeout_warned,
                   loop_calls, _msg_queue, sessionVars, sent, bus_shutdown,
                   hb_seen, hb_seen_at, stop, testVars>>
\* asyncio.wait_for times out; start() raises HeartbeatError
StartTimeout ==
    /\ ~LoopBlocked
    /\ start.pc = "waiting"
    /\ ~_heartbeat_event
    /\ now - start.since >= WAIT_FOR_HEARTBEAT_TIMEOUT
    /\ start' = [start EXCEPT !.pc = "failed"]
    /\ call' = NoCall
    /\ UNCHANGED codecVars
    /\ UNCHANGED <<now, _running, _receive_thread, _msg_task, timeout_warned,
                   loop_calls, _msg_queue, sessionVars, sent, bus_shutdown,
                   hb_seen, hb_seen_at, stop, testVars>>

\* variant of the loop that does not test self._running
CanReaderRecv_deaf ==
    /\ _receive_thread.pc = "loop"
    /\ _receive_thread' = [pc |-> "recv", since |-> now]
    /\ call' = NoCall
    /\ UNCHANGED codecVars
    /\ UNCHANGED <<now, _running, _msg_task, timeout_warned, loop_calls,
                   _msg_queue, sessionVars, sent, bus_shutdown, hb_seen,
                   hb_seen_at, start, stop, testVars>>
\* _can_reader_thread at the top of its loop: it tests self._running and
\* either blocks in bus.recv(MESSAGE_TIMEOUT) or leaves the loop
CanReaderRecv ==
    /\ _receive_thread.pc = "loop"
    /\ _receive_thread' = IF _running THEN [pc |-> "recv", since |-> now]
                          ELSE [pc |-> "exited", since |-> 0]
    /\ call' = NoCall
    /\ UNCHANGED codecVars
    /\ UNCHANGED <<now, _running, _msg_task, timeout_warned, loop_calls,
                   _msg_queue, sessionVars, sent, bus_shutdown, hb_seen,
                   hb_seen_at, start, stop, testVars>>

\* variant of the filter that lets remote-request frames through
ReaderAccepts_rtr(msg) ==
    LET id == split_message_id(msg.arbitration_id)
    IN  id[1] = NODE_ID /\ _running
\* does one iteration of _can_reader_thread hand the frame to the loop?
ReaderAccepts(msg) ==
    LET id == split_message_id(msg.arbitration_id)
    IN  /\ id[1] = NODE_ID
        /\ id[2] \notin {}            \* self._ignored_messages is empty
        /\ ~msg.is_remote_frame
        /\ _running

\* the body of the loop of _can_reader_thread once bus.recv has returned
\* msg (NoFrame: the receive timeout has expired); the model lets the
\* thread hand a frame over while fewer than room frames are pending
ReaderIteration(msg, room) ==
    /\ _receive_thread' = [pc |-> "loop", since |-> 0]
    /\ IF msg = NoFrame
       THEN /\ now - _receive_thread.since >= MESSAGE_TIMEOUT
            /\ timeout_warned' = TRUE
            /\ UNCHANGED loop_calls
       ELSE /\ timeout_warned' = FALSE
            /\ IF ReaderAccepts(msg)
               THEN /\ Len(loop_calls) + Len(_msg_queue) < room
                    /\ loop_calls' =
                          Append(loop_calls, <<msg.arbitration_id, msg.data>>)
               ELSE UNCHANGED loop_calls

\* bus.recv fails on a transport that has been shut down: the thread ends
ReaderExit ==
    /\ _receive_thread' = [pc |-> "exited", since |-> 0]
    /\ UNCHANGED <<timeout_warned, loop_calls>>

\* bus.recv returns and _can_reader_thread runs the rest of the iteration;
\* the bus carries any traffic
CanReaderIteration ==
    /\ _receive_thread.pc = "recv"
    /\ IF bus_shutdown
       THEN ReaderExit
       ELSE \E msg \in BusFrames \cup {NoFrame} :
               ReaderIteration(msg, MaxQueue)
    /\ call' = NoCall
    /\ UNCHANGED codecVars
    /\ UNCHANGED <<now, _running, _msg_task, _msg_queue, sessionVars, sent,
                   bus_shutdown, hb_seen, hb_seen_at, start, stop, testVars>>

\* asyncio.Queue(): the default maxsize, 0, stands for no limit
Queue_maxsize == 0
\* asyncio.Queue.full
Queue_full(queue) == Queue_maxsize > 0 /\ Len(queue) >= Queue_maxsize

\* variant of the put that places the item at the head of the queue
LoopRunPut_front ==
    /\ ~LoopBlocked
    /\ loop_calls # <<>>
    /\ ~Queue_full(_msg_queue)
    /\ _msg_queue' = <<Head(loop_calls)>> \o _msg_queue
    /\ loop_calls' = Tail(loop_calls)
    /\ call' = NoCall
    /\ UNCHANGED codecVars
    /\ UNCHANGED <<now, _running, _receive_thread, _msg_task, timeout_warned,
                   sessionVars, sent, bus_shutdown, hb_seen, hb_seen_at,
                   start, stop, testVars>>
\* the event loop runs a coroutine scheduled by run_coroutine_threadsafe:
\* self._msg_queue.put(...), which waits while the queue is full
LoopRunPut ==
    /\ ~LoopBlocked
    /\ loop_calls # <<>>
    /\ ~Queue_full(_msg_queue)
    /\ _msg_queue' = Append(_msg_queue, Head(loop_calls))
    /\ loop_calls' = Tail(loop_calls)
    /\ call' = NoCall
    /\ UNCHANGED codecVars
    /\ UNCHANGED <<now, _running, _receive_thread, _msg_task, timeout_warned,
                   sessionVars, sent, bus_shutdown, hb_seen, hb_seen_at,
                   start, stop, testVars>>

\* does the frame look like a Heartbeat on the wire?
IsHeartbeatFrame(item) == item[1] % 32 = 1 /\ Len(item[2]) = 5

\* variant of the dispatch that records a Heartbeat without updating
\* io_state and the pins
Dispatch_no_update(item) ==
    LET msg == decode_message(item[1], item[2])
    IN  /\ IF msg.err = "none" /\ msg.val.type = "HeartbeatMessage"
           THEN /\ _last_heartbeat' = msg.val
                /\ _last_heartbeat_time' = now
                /\ _heartbeat_event' = TRUE
                /\ UNCHANGED <<_io_state, pins>>
           ELSE UNCHANGED sessionVars
        /\ waiters' = WokenBy(pins')
        /\ hb_seen' = (hb_seen \/ IsHeartbeatFrame(item))
        /\ hb_seen_at' = IF IsHeartbeatFrame(item) THEN now ELSE hb_seen_at
\* what _message_handler does with one item of the queue
Dispatch(item) ==
    LET msg == decode_message(item[1], item[2])
    IN  /\ IF msg.err # "none"
           THEN UNCHANGED sessionVars               \* logged, loop goes on
           ELSE IF msg.val.type = canp_getattr("HeartbeatMessage").val
           THEN /\ _last_heartbeat' = msg.val
                /\ _last_heartbeat_time' = now
                /\ _io_state' = Field(msg.val, "io_state")
                /\ pins' = UpdatedPins(Field(msg.val, "io_state"))
                /\ _heartbeat_event' = TRUE
           ELSE IF canp_getattr("IOStateMessage").err # "none"
           THEN UNCHANGED sessionVars               \* AttributeError, logged
           ELSE IF msg.val.type = canp_getattr("IOStateMessage").val
           THEN /\ _io_state' = Field(msg.val, "io_state")
                /\ pins' = UpdatedPins(Field(msg.val, "io_state"))
                /\ UNCHANGED <<_last_heartbeat, _last_heartbeat_time,
                               _heartbeat_event>>
           ELSE UNCHANGED sessionVars
        /\ waiters' = WokenBy(pins')
        /\ hb_seen' = (hb_seen \/ IsHeartbeatFrame(item))
        /\ hb_seen_at' = IF IsHeartbeatFrame(item) THEN now ELSE hb_seen_at

\* variant of the iteration in which a decode error ends the task
HandlerIteration_fatal ==
    /\ ~LoopBlocked
    /\ _msg_task = "alive"
    /\ _running
    /\ _msg_queue # <<>>
    /\ _msg_queue' = Tail(_msg_queue)
    /\ Dispatch(Head(_msg_queue))
    /\ _msg_task' =
          IF decode_message(Head(_msg_queue)[1], Head(_msg_queue)[2]).err
                # "none"
          THEN "done" ELSE _msg_task
    /\ call' = NoCall
    /\ UNCHANGED codecVars
    /\ UNCHANGED <<now, _running, _receive_thread, timeout_warned,
                   loop_calls, sent, bus_shutdown, start, stop, peerVars>>
\* one iteration of the loop of ICU._message_handler
HandlerIteration ==
    /\ ~LoopBlocked
    /\ _msg_task = "alive"
    /\ _running
    /\ _msg_queue # <<>>
    /\ _msg_queue' = Tail(_msg_queue)
    /\ Dispatch(Head(_msg_queue))
    /\ call' = NoCall
    /\ UNCHANGED codecVars
    /\ UNCHANGED <<now, _running, _receive_thread, _msg_task, timeout_warned,
                   loop_calls, sent, bus_shutdown, start, stop, peerVars>>

MessageHandlerStep == HandlerIteration /\ UNCHANGED hist

\* _message_handler is cancelled inside queue.get() and ends
MsgTaskExit ==
    /\ ~LoopBlocked
    /\ _msg_task = "cancelling"
    /\ _msg_task' = "done"
    /\ call' = NoCall
    /\ UNCHANGED codecVars
    /\ UNCHANGED <<now, _running, _receive_thread, timeout_warned, loop_calls,
                   _msg_queue, sessionVars, sent, bus_shutdown, hb_seen,
                   hb_seen_at, start, stop, testVars>>

\* ICU.stop up to its first suspension: clears _running and cancels the
\* dispatch task; with a live task it awaits it, otherwise it goes on to
\* join the receive thread
StopCall ==
    /\ ~LoopBlocked
    /\ stop.pc \in {"idle", "returned"}
    /\ stop.calls < MaxStops
    /\ _running' = FALSE
    /\ IF _msg_task = "alive"
       THEN /\ _msg_task' = "cancelling"
            /\ stop' = [stop EXCEPT !.pc = "await_task"]
       ELSE /\ UNCHANGED _msg_task
            /\ stop' = [stop EXCEPT !.pc = "join", !.since = now]
    /\ call' = NoCall
    /\ UNCHANGED codecVars
    /\ UNCHANGED <<now, _receive_thread, timeout_warned, loop_calls,
                   _msg_queue, sessionVars, sent, bus_shutdown, hb_seen,
                   hb_seen_at, start, testVars>>

\* the dispatch task is done: stop() resumes and calls join(timeout=1.0)
StopJoin ==
    /\ stop.pc = "await_task"
    /\ _msg_task = "done"
    /\ stop' = [stop EXCEPT !.pc = "join", !.since = now]
    /\ call' = NoCall
    /\ UNCHANGED codecVars
    /\ UNCHANGED <<now, _running, _receive_thread, _msg_task, timeout_warned,
                   loop_calls, _msg_queue, sessionVars, sent, bus_shutdown,
                   hb_seen, hb_seen_at, start, testVars>>

\* what stop() is to leave behind
StopState == [running |-> _running, task |-> _msg_task,
              thread_alive |-> ThreadAlive, bus_shutdown |-> TRUE]

\* join returns (the thread has ended, or the timeout has expired);
\* stop() shuts the bus down and returns
StopReturn ==
    /\ stop.pc = "join"
    /\ ~ThreadAlive \/ now - stop.since >= JOIN_TIMEOUT
    /\ bus_shutdown' = TRUE
    /\ stop' = [pc |-> "returned", since |-> stop.since,
                calls |-> stop.calls + 1,
                first |-> IF stop.calls = 0 THEN StopState ELSE stop.first]
    /\ call' = [op |-> "stop", result |-> Returned, pre |-> Snapshot]
    /\ UNCHANGED codecVars
    /\ UNCHANGED <<now, _running, _receive_thread, _msg_task, timeout_warned,
                   loop_calls, _msg_queue, sessionVars, sent, hb_seen,
                   hb_seen_at, start, testVars>>

\* a task calls icu.check_alive()
CheckAliveCall ==
    /\ ~LoopBlocked
    /\ call' = [op |-> "check_alive", result |-> check_alive, pre |-> Snapshot]
    /\ UNCHANGED <<otherThanCall, sent, codecVars>>

\* a task assigns icu.io_state = v
SetIoStateCall ==
    /\ ~LoopBlocked
    /\ \E v \in IoSamples :
          LET out == io_state_setter(v)
          IN  /\ call' = [op |-> "io_state", result |-> out.result,
                          pre |-> Snapshot]
              /\ sent' = out.sent
    /\ UNCHANGED <<otherThanCall, codecVars>>

\* a task assigns icu.pins[n].state = v
PinSetStateCall ==
    /\ ~LoopBlocked
    /\ \E n \in PinSamples, v \in BOOLEAN :
          LET out == Pin_state_setter(n, v)
          IN  /\ call' = [op |-> "pin_state", result |-> out.result,
                          pre |-> Snapshot]
              /\ sent' = out.sent
    /\ UNCHANGED <<otherThanCall, codecVars>>

Next ==
    \/ Tick
    \/ StartCall
    \/ StartReturn
    \/ StartTimeout
    \/ CanReaderRecv
    \/ CanReaderIteration
    \/ LoopRunPut
    \/ MessageHandlerStep
    \/ MsgTaskExit
    \/ StopCall
    \/ StopJoin
    \/ StopReturn
    \/ CheckAliveCall
    \/ SetIoStateCall
    \/ PinSetStateCall

-----------------------------------------------------------------------------
(* Pins and their signals, driven as tests/test_core.py drives them:       *)
(* io_state updates on one side, tasks looping on wait() on the other.     *)

MaxUpdates == 4      \* calls of _uptate_io_state
MaxObs == 4          \* returns of wait() a task counts

pinFrame == <<codecVars, now, _running, _receive_thread, _msg_task,
              timeout_warned, loop_calls, _msg_queue, _last_heartbeat,
              _last_heartbeat_time, _heartbeat_event, sent, bus_shutdown,
              call, hb_seen, hb_seen_at, start, stop, peerVars>>

\* ICU._uptate_io_state(io): every pin is updated, the tasks suspended on a
\* signal that gets set are woken
UpdateIoState ==
    /\ hist.updates < MaxUpdates
    /\ \E io \in IoSamples :
          LET new == BitAnd(io, ShiftLeft(1, WaitPin)) # 0
              edge == new # pins[WaitPin]._state
          IN  /\ _io_state' = io
              /\ pins' = UpdatedPins(io)
              /\ waiters' = WokenBy(pins')
              /\ hist' =
                    [hist EXCEPT
                       !.updates = @ + 1,
                       !.change_event = @ + (IF edge THEN 1 ELSE 0),
                       !.high_event = @ + (IF edge /\ new THEN 1 ELSE 0),
                       !.low_event = @ + (IF edge /\ ~new THEN 1 ELSE 0)]
    /\ UNCHANGED pinFrame

\* variant of wait() that suspends the task whatever the signal
Wait_suspend(w) ==
    LET e == waiters[w].ev
        ev == pins[WaitPin][e]
        from == IF waiters[w].from < 0 THEN hist.updates
                ELSE waiters[w].from
    IN  /\ waiters[w].pc = "idle"
        /\ waiters[w].n < MaxObs
        /\ pins' = [pins EXCEPT ![WaitPin][e]._active_waiters = @ + 1]
        /\ waiters' = [waiters EXCEPT ![w].pc = "suspended",
                                      ![w].from = from]
\* a task calls AutoClearEvent.wait() on its signal: with the signal set the
\* call returns at once, otherwise the task is suspended
Wait(w) ==
    LET e == waiters[w].ev
        ev == pins[WaitPin][e]
        entered == [ev EXCEPT !._active_waiters = @ + 1]
        from == IF waiters[w].from < 0 THEN hist.updates
                ELSE waiters[w].from
    IN  /\ waiters[w].pc = "idle"
        /\ waiters[w].n < MaxObs
        /\ IF ev.flag
           THEN /\ pins' = [pins EXCEPT ![WaitPin][e] = WaitDone(entered)]
                /\ waiters' = [waiters EXCEPT ![w].n = @ + 1,
                                              ![w].from = from]
           ELSE /\ pins' = [pins EXCEPT ![WaitPin][e] = entered]
                /\ waiters' = [waiters EXCEPT ![w].pc = "suspended",
                                              ![w].from = from]

\* any of the tasks calls wait()
WaitCall ==
    /\ ~LoopBlocked
    /\ \E w \in Waiters : Wait(w)
    /\ UNCHANGED <<pinFrame, _io_state, hist>>

\* a woken task resumes from wait()
WaiterResume ==
    /\ ~LoopBlocked
    /\ \E w \in Waiters :
          LET e == waiters[w].ev
          IN  /\ waiters[w].pc = "woken"
              /\ pins' = [pins EXCEPT ![WaitPin][e] = WaitDone(pins[WaitPin][e])]
              /\ waiters' = [waiters EXCEPT ![w].pc = "idle", ![w].n = @ + 1]
    /\ UNCHANGED <<pinFrame, _io_state, hist>>

PinNext ==
    \/ UpdateIoState
    \/ WaitCall
    \/ WaiterResume

-----------------------------------------------------------------------------
(* start() called again after it has failed or returned.                   *)

MaxStarts == 2       \* calls of start()

\* ICU.start called again on a driver that has not been stopped: a new
\* thread and a new task are spawned and replace the references held in
\* _receive_thread and _msg_task; the earlier thread and task are not
\* stopped and keep running while self._running is set.  The model counts
\* them and follows the latest pair.
StartRetry ==
    /\ ~LoopBlocked
    /\ start.pc \in {"failed", "returned"}
    /\ start.spawned < MaxStarts
    /\ stop.pc = "idle" /\ stop.calls = 0
    /\ _receive_thread' = [pc |-> "loop", since |-> 0]
    /\ _msg_task' = "alive"
    /\ _heartbeat_event' = FALSE
    /\ start' = [pc |-> "waiting", since |-> now,
                 spawned |-> start.spawned + 1]
    /\ call' = NoCall
    /\ UNCHANGED codecVars
    /\ UNCHANGED <<now, _running, timeout_warned, loop_calls, _msg_queue,
                   _last_heartbeat, _last_heartbeat_time, _io_state, pins,
                   sent, bus_shutdown, hb_seen, hb_seen_at, stop, testVars>>

\* receive threads known to be running: the one _receive_thread refers to
\* and, while self._running is set, those spawned before it
IntakeLoops ==
    (IF ThreadAlive THEN 1 ELSE 0)
    + (IF _running /\ start.spawned > 1 THEN start.spawned - 1 ELSE 0)

\* dispatch tasks known to be unfinished, likewise
DispatchTasks ==
    (IF _msg_task \in {"alive", "cancelling"} THEN 1 ELSE 0)
    + (IF _running /\ start.spawned > 1 THEN start.spawned - 1 ELSE 0)

RetryNext ==
    \/ Tick
    \/ StartCall
    \/ StartRetry
    \/ StartReturn
    \/ StartTimeout
    \/ CanReaderRecv
    \/ CanReaderIteration
    \/ LoopRunPut
    \/ MessageHandlerStep
    \/ MsgTaskExit
    \/ StopCall
    \/ StopJoin
    \/ StopReturn

-----------------------------------------------------------------------------
(* Intake and dispatch on a busy bus, with the history of the frames       *)
(* received and of the frames dispatched.  Time stands still: every        *)
(* interleaving of the receive thread and the event loop is taken.         *)

MaxPending == 2      \* frames in the hand-off (scheduled puts + queue)
MaxReceived == 3     \* frames bus.recv returns

\* bus.recv returns a frame and _can_reader_thread runs the rest of the
\* iteration; the history keeps the frame and self._running as the thread
\* read it
IntakeIteration ==
    /\ _receive_thread.pc = "recv"
    /\ IF bus_shutdown
       THEN ReaderExit /\ UNCHANGED hist
       ELSE /\ Len(hist.received) < MaxReceived
            /\ \E msg \in BusFrames :
                  /\ ReaderIteration(msg, MaxPending)
                  /\ hist' = [hist EXCEPT !.received =
                                 Append(@, [frame |-> msg,
                                            running |-> _running])]
    /\ call' = NoCall
    /\ UNCHANGED codecVars
    /\ UNCHANGED <<now, _running, _msg_task, _msg_queue, sessionVars, sent,
                   bus_shutdown, hb_seen, hb_seen_at, start, stop, waiters,
                   peerVars>>

\* the io_state field of a queue item that decodes to a Heartbeat or an
\* IoState message, otherwise the value kept so far
ReportedIo(item, kept) ==
    LET msg == decode_message(item[1], item[2])
    IN  IF msg.err = "none"
           /\ msg.val.type \in {"HeartbeatMessage", "IoStateMessage"}
        THEN Field(msg.val, "io_state")
        ELSE kept

\* one iteration of _message_handler; the history keeps the item
DispatchIteration ==
    /\ HandlerIteration
    /\ hist' = [hist EXCEPT
                  !.applied = Append(@, Head(_msg_queue)),
                  !.last_io = ReportedIo(Head(_msg_queue), @)]

IntakeNext ==
    \/ StartCall
    \/ StartReturn
    \/ CanReaderRecv
    \/ IntakeIteration
    \/ LoopRunPut
    \/ DispatchIteration
    \/ MsgTaskExit
    \/ StopCall
    \/ StopJoin
    \/ StopReturn

-----------------------------------------------------------------------------
(* The driver against the ICUMock peer of mock.py, as in                   *)
(* tests/test_integral.py: the only traffic is what the two send.          *)

DEVICE_TYPE == 201
MaxWire == 1         \* frames the bus holds for the driver
MaxCommands == 1     \* set_pin commands the mock is given

\* ICUMock.io_state setter: stores the state, then reports it
Mock_io_state_setter(new_state) ==
    LET cls == canp_getattr("IOStateMessage")
    IN  IF cls.err # "none"
        THEN [_io_state |-> new_state, out |-> <<>>]    \* AttributeError
        ELSE LET enc == encode_message(Msg(cls.val, <<new_state>>), NODE_ID)
             IN  [_io_state |-> new_state,
                  out |-> IF enc.err # "none" THEN <<>>
                          ELSE <<Frame(enc.val[1], enc.val[2], FALSE)>>]

\* one iteration of ICUMock.message_handler on a frame the driver has sent;
\* every exception is logged and the loop goes on
Mock_handle(io_state, frame) ==
    LET unchanged == [_io_state |-> io_state, out |-> <<>>]
        msg == decode_message(frame.arbitration_id, frame.data)
        cls == canp_getattr("IOSetMessage")
    IN  IF get_node_id(frame.arbitration_id) # NODE_ID THEN unchanged
        ELSE IF msg.err # "none" THEN unchanged
        ELSE IF cls.err # "none" THEN unchanged         \* AttributeError
        ELSE IF msg.val.type = cls.val
        THEN Mock_io_state_setter(Field(msg.val, "io_state"))
        ELSE unchanged

\* message_handler run over the frames that have arrived
RECURSIVE Mock_handle_all(_, _)
Mock_handle_all(io_state, frames) ==
    IF frames = <<>> THEN [_io_state |-> io_state, out |-> <<>>]
    ELSE LET first == Mock_handle(io_state, Head(frames))
             rest == Mock_handle_all(first._io_state, Tail(frames))
         IN  [_io_state |-> rest._io_state, out |-> first.out \o rest.out]

\* the frames the bus keeps for the driver: what does not fit is lost
Delivered(frames) ==
    LET all == wire \o frames
    IN  IF Len(all) <= MaxWire THEN all ELSE SubSeq(all, 1, MaxWire)

\* one round of the mock's tasks, once per heartbeat period:
\* message_handler takes the frames the driver has sent, heartbeat_loop
\* sends a Heartbeat with the current _io_state and counts
MockRun ==
    /\ mock.hb_at < now
    /\ LET frames == SubSeq(sent, mock.read + 1, Len(sent))
           arrived == [f \in 1..Len(frames) |->
                          Frame(frames[f].arbitration_id, frames[f].data,
                                FALSE)]
           handled == Mock_handle_all(mock._io_state, arrived)
           hb == encode_message(
                     Msg("HeartbeatMessage",
                         <<DEVICE_TYPE, 0, handled._io_state, 0,
                           mock.counter>>), NODE_ID)
       IN  /\ mock' = [mock EXCEPT !._io_state = handled._io_state,
                                   !.counter = BitAnd(@ + 1, 255),
                                   !.hb_at = now, !.read = Len(sent)]
           /\ wire' = Delivered(handled.out
                                 \o <<Frame(hb.val[1], hb.val[2], FALSE)>>)
    /\ call' = NoCall
    /\ UNCHANGED codecVars
    /\ UNCHANGED <<now, _running, _receive_thread, _msg_task, timeout_warned,
                   loop_calls, _msg_queue, sessionVars, sent, bus_shutdown,
                   hb_seen, hb_seen_at, start, stop, waiters, hist>>

\* bit_ops.set_bit and bit_ops.clear_bit
set_bit(value, bit) == BitOr(value, ShiftLeft(1, bit))
clear_bit(value, bit) == BitAndNot(value, ShiftLeft(1, bit))

\* ICUMock.set_pin on pin 0, a command of the mock's operator: the new
\* state is stored and reported
MockSetPin ==
    /\ mock.commands < MaxCommands
    /\ \E state \in BOOLEAN :
         LET set == Mock_io_state_setter(
                        IF state THEN set_bit(mock._io_state, WaitPin)
                        ELSE clear_bit(mock._io_state, WaitPin))
         IN  /\ mock' = [mock EXCEPT !._io_state = set._io_state,
                                     !.commands = @ + 1]
             /\ wire' = Delivered(set.out)
    /\ call' = NoCall
    /\ UNCHANGED codecVars
    /\ UNCHANGED <<now, _running, _receive_thread, _msg_task, timeout_warned,
                   loop_calls, _msg_queue, sessionVars, sent, bus_shutdown,
                   hb_seen, hb_seen_at, start, stop, waiters, hist>>

\* bus.recv returns the next frame of the bus, or None at the timeout, and
\* _can_reader_thread runs the rest of the iteration
LoopbackReaderIteration ==
    /\ _receive_thread.pc = "recv"
    /\ IF bus_shutdown
       THEN ReaderExit /\ UNCHANGED wire
       ELSE IF wire # <<>>
       THEN ReaderIteration(Head(wire), MaxQueue) /\ wire' = Tail(wire)
       ELSE ReaderIteration(NoFrame, MaxQueue) /\ UNCHANGED wire
    /\ call' = NoCall
    /\ UNCHANGED codecVars
    /\ UNCHANGED <<now, _running, _msg_task, _msg_queue, sessionVars, sent,
                   bus_shutdown, hb_seen, hb_seen_at, start, stop, waiters,
                   hist, mock>>

\* time passes once the mock has sent the Heartbeat of this period and the
\* receive thread has taken what the bus holds
LoopbackTick ==
    /\ mock.hb_at = now
    /\ ~(_receive_thread.pc = "recv" /\ wire # <<>>)
    /\ Tick

\* the test waits once, in one task, on the rising signal of pin 0
WaitHigh ==
    /\ ~LoopBlocked
    /\ waiters[1].n = 0
    /\ Wait(1)
    /\ UNCHANGED <<pinFrame, _io_state, hist>>

\* variant of the assignment that also stores the level in the driver
SetPinHigh_local ==
    /\ ~LoopBlocked
    /\ LET out == Pin_state_setter(WaitPin, TRUE)
       IN  /\ call' = [op |-> "pin_state", result |-> out.result,
                       pre |-> Snapshot]
           /\ sent' = out.sent
    /\ _io_state' = set_bit(_io_state, WaitPin)
    /\ hist' = [hist EXCEPT !.set_high_at =
                    IF hb_seen /\ now - hb_seen_at <= HEARTBEAT_TIMEOUT
                    THEN now ELSE @]
    /\ UNCHANGED codecVars
    /\ UNCHANGED <<now, _running, _receive_thread, _msg_task, timeout_warned,
                   loop_calls, _msg_queue, _last_heartbeat,
                   _last_heartbeat_time, _heartbeat_event, pins,
                   bus_shutdown, hb_seen, hb_seen_at, start, stop, waiters,
                   peerVars>>
\* the test assigns pin.state = True on pin 0; the history keeps the time
\* of the last assignment made with the device alive
SetPinHigh ==
    /\ ~LoopBlocked
    /\ LET out == Pin_state_setter(WaitPin, TRUE)
       IN  /\ call' = [op |-> "pin_state", result |-> out.result,
                       pre |-> Snapshot]
           /\ sent' = out.sent
    /\ hist' = [hist EXCEPT !.set_high_at =
                    IF hb_seen /\ now - hb_seen_at <= HEARTBEAT_TIMEOUT
                    THEN now ELSE @]
    /\ UNCHANGED codecVars
    /\ UNCHANGED <<now, _running, _receive_thread, _msg_task, timeout_warned,
                   loop_calls, _msg_queue, sessionVars, bus_shutdown,
                   hb_seen, hb_seen_at, start, stop, waiters, peerVars>>

LoopbackNext ==
    \/ LoopbackTick
    \/ MockRun
    \/ MockSetPin
    \/ StartCall
    \/ StartReturn
    \/ StartTimeout
    \/ CanReaderRecv
    \/ LoopbackReaderIteration
    \/ LoopRunPut
    \/ MessageHandlerStep
    \/ CheckAliveCall
    \/ SetPinHigh
    \/ WaitHigh
    \/ WaiterResume
    \/ MsgTaskExit
    \/ StopCall
    \/ StopJoin
    \/ StopReturn

-----------------------------------------------------------------------------
(* The specifications.                                                     *)

\* the driver: its dispatch never reads a multi-byte field, so one host
\* byte order stands for both
Init ==
    /\ byteorder = "little"
    /\ codec = Idle
    /\ DriverInit

Spec == Init /\ [][Next]_vars

CodecSpecInit == CodecInit /\ DriverInit

CodecSpec == CodecSpecInit /\ [][CodecNext]_vars

\* pins and waiting tasks: each task waits on one of the three signals
PinInit ==
    /\ byteorder = "little"
    /\ codec = Idle
    /\ ICU_init
    /\ waiters \in [Waiters -> {IdleWaiter(e) : e \in EventNames}]
    /\ PeerInit

PinSpec == PinInit /\ [][PinNext]_vars

\* the loopback test: every task waits on the rising signal of pin 0
LoopbackInit ==
    /\ byteorder = "little"
    /\ codec = Idle
    /\ ICU_init
    /\ waiters = [w \in Waiters |-> IdleWaiter("high_event")]
    /\ PeerInit

LoopbackSpec == LoopbackInit /\ [][LoopbackNext]_vars

\* intake and dispatch with their history
IntakeSpec == Init /\ [][IntakeNext]_vars

\* the driver with start() called more than once
RetrySpec == Init /\ [][RetryNext]_vars

-----------------------------------------------------------------------------
(* Properties of the codec (checked under CodecSpec).                      *)

EncodeOk == codec.op = "encode" /\ codec.res.err = "none"
DecodeDone == codec.op = "decode"
DecodeOk == codec.op = "decode" /\ codec.res.err = "none"

IdTable ==
    [p \in NodeIds \X Opcodes |-> generate_message_id(p[1], p[2])]

\* C1: for node_id in 0..63 and opcode in 0..31, splitting the generated
\* identifier gives back (node_id, opcode), and no other pair generates the
\* same identifier.
C1_IdRoundTrip ==
    codec.op = "generate_id" =>
        /\ codec.split = <<codec.node_id, codec.opcode>>
        /\ codec.node = codec.node_id
        /\ \A p \in NodeIds \X Opcodes :
              IdTable[p] = codec.id => p = <<codec.node_id, codec.opcode>>

C1_Witness ==
    /\ codec.op = "generate_id"
    /\ codec.node_id = MaxNodeId
    /\ codec.opcode = MaxOpcode
    /\ codec.split = <<MaxNodeId, MaxOpcode>>

\* C2 (as claimed): decoding what encode_message produced returns a message
\* of the same variant with the same field values.
C2_RoundTrip ==
    codec.op = "roundtrip" =>
        /\ codec.res.err = "none"
        /\ codec.res.val = codec.msg

\* the opcode and byte count the specification's table gives each variant
ClaimedTable ==
    [HaltMessage |-> <<0, 1>>, HeartbeatMessage |-> <<1, 5>>,
     IoStateMessage |-> <<2, 1>>, SetIoMessage |-> <<3, 1>>,
     SetParameterMessage |-> <<4, 5>>, GetParameterMessage |-> <<5, 1>>]

ClaimedVariant(opcode) ==
    CHOOSE t \in DOMAIN ClaimedTable : ClaimedTable[t][1] = opcode

\* the table the code registers: opcode per variant, variant decoded per
\* opcode, byte count of the fixed-layout variants
RegisteredOpcode ==
    [HaltMessage |-> 0, HeartbeatMessage |-> 1, IoStateMessage |-> 2,
     SetIoMessage |-> 3, ParameterMessage |-> 4, GetParameterMessage |-> 5,
     SetParameterMessage |-> 6]
DecodedVariant ==
    <<"HaltMessage", "HeartbeatMessage", "IoStateMessage", "SetIoMessage",
      "ParameterMessage", "GetParameterMessage", "ParameterMessage">>
FixedOpcodes == {0, 1, 2, 3, 5}
ParameterOpcodes == {4, 6}
FixedSize == [o \in FixedOpcodes |-> IF o = 1 THEN 5 ELSE 1]
RegisteredParams == {0, 1, 2, 3, 255}
ParamWidth(param_id) == IF param_id = 255 THEN 4 ELSE 1

LittleEndian(v, width) == [i \in 1..width |-> (v \div (256 ^ (i - 1))) % 256]

ExpectedData(m) ==
    IF m.type = "HeartbeatMessage"
    THEN <<Field(m, "device_type"), Field(m, "io_dir"), Field(m, "io_state"),
           Field(m, "errors"), Field(m, "counter")>>
    ELSE IF m.type \in {"HaltMessage", "IoStateMessage", "SetIoMessage"}
    THEN <<Field(m, "io_state")>>
    ELSE IF m.type = "GetParameterMessage"
    THEN <<Field(m, "param_id")>>
    ELSE <<Field(m, "param_id")>>
         \o LittleEndian(Field(m, "value"), ParamWidth(Field(m, "param_id")))

C4_ClaimedFixedLength ==
    (EncodeOk /\ codec.msg.type \in DOMAIN ClaimedTable) =>
        Len(codec.res.val[2]) = ClaimedTable[codec.msg.type][2]

\* C4 (amended): every variant other than the parameter messages has one
\* fixed byte length (Heartbeat 5, the others 1) whatever the field values;
\* ParameterMessage and SetParameterMessage are 1 byte plus the width
\* registered for their param_id (2 bytes for ids 0..3, 5 bytes for id 255),
\* whatever the value.
C4_ByteLength ==
    EncodeOk =>
        Len(codec.res.val[2]) =
            IF codec.msg.type \in {"ParameterMessage", "SetParameterMessage"}
            THEN 1 + ParamWidth(codec.msg.fields[1])
            ELSE FixedSize[RegisteredOpcode[codec.msg.type]]

C4_Witness ==
    /\ EncodeOk
    /\ codec.msg.type = "ParameterMessage"
    /\ codec.msg.fields[1] = 0
    /\ Len(codec.res.val[2]) = 2

\* C5 (as claimed): decoding data whose length differs from the size the
\* table declares for the opcode fails with the length-mismatch error.
C5_ClaimedLengthMismatch ==
    (/\ DecodeDone
     /\ codec.arb_id % 32 \in 0..5
     /\ Len(codec.data) #
           ClaimedTable[ClaimedVariant(codec.arb_id % 32)][2]) =>
        codec.res.err = "struct.error"

\* the length decode_message requires: fixed per opcode, or for a parameter
\* opcode 1 + the width registered for the param_id in the first byte
HasRequiredLength(opcode, data) ==
    IF opcode \in FixedOpcodes THEN Len(data) = FixedSize[opcode]
    ELSE /\ data # <<>>
         /\ data[1] \in RegisteredParams
         /\ Len(data) = 1 + ParamWidth(data[1])

\* C5 (amended): decoding data of any other than the required length never
\* returns a message: it fails with the length-mismatch error (struct.error)
\* for the fixed-layout opcodes 0, 1, 2, 3, 5; for the parameter opcodes 4
\* and 6 it fails with IndexError on empty data, with KeyError when the
\* first byte is no registered param_id, and with struct.error otherwise.
C5_LengthMismatch ==
    (/\ DecodeDone
     /\ codec.arb_id % 32 \in FixedOpcodes \cup ParameterOpcodes
     /\ ~HasRequiredLength(codec.arb_id % 32, codec.data)) =>
        codec.res.err =
            IF codec.arb_id % 32 \in FixedOpcodes THEN "struct.error"
            ELSE IF codec.data = <<>> THEN "IndexError"
            ELSE IF codec.data[1] \notin RegisteredParams THEN "KeyError"
            ELSE "struct.error"

C5_Witness ==
    /\ DecodeDone
    /\ codec.arb_id % 32 = 1
    /\ Len(codec.data) = 6
    /\ codec.res.err = "struct.error"

\* C6: decoding an identifier whose low 5 bits match no registered variant
\* fails with the unknown-opcode error (KeyError), whatever the data and
\* the node bits.
C6_UnknownOpcode ==
    (DecodeDone /\ codec.arb_id % 32 \notin 0..6) =>
        codec.res.err = "KeyError"

C6_Witness ==
    /\ DecodeDone
    /\ codec.arb_id = NODE_ID * 32 + 12
    /\ Len(codec.data) = 1
    /\ codec.res.err = "KeyError"

\* C7 (as claimed): for every opcode of the table and every byte string of
\* the declared length, decode_message returns a message.
C7_ClaimedNeverRaises ==
    (/\ DecodeDone
     /\ codec.arb_id % 32 \in 0..5
     /\ Len(codec.data) =
           ClaimedTable[ClaimedVariant(codec.arb_id % 32)][2]) =>
        codec.res.err = "none"

\* C7 (amended): for the fixed-layout opcodes 0, 1, 2, 3, 5 every byte
\* string of the variant's length decodes without error; for the parameter
\* opcodes 4 and 6 a byte string decodes without error exactly when its
\* first byte is a registered param_id (0, 1, 2, 3, 255) and its length is
\* 1 + that parameter's width, and the decoded param_id is that byte.
C7_DecodeSucceeds ==
    (DecodeDone /\ codec.arb_id % 32 \in FixedOpcodes \cup ParameterOpcodes) =>
        /\ codec.res.err = "none"
              <=> HasRequiredLength(codec.arb_id % 32, codec.data)
        /\ (codec.res.err = "none" /\ codec.arb_id % 32 \in ParameterOpcodes)
              => codec.res.val.fields[1] = codec.data[1]

C7_Witness ==
    /\ DecodeOk
    /\ codec.arb_id % 32 = 4
    /\ codec.data[1] = 255
    /\ Len(codec.data) = 5

\* C8: the identifier is [node_id:6][opcode:5]: an identifier id in
\* 0..0x7FF splits to (id div 32, id mod 32), node_id in 0..63 and opcode in
\* 0..31 (0x02C gives node 1, opcode 12); the identifier generated for
\* in-range inputs is node_id * 32 + opcode and never exceeds 0x7FF.
C8_IdLayout ==
    /\ codec.op = "split_id" =>
          /\ codec.split = <<codec.id \div 32, codec.id % 32>>
          /\ codec.split[1] \in 0..63
          /\ codec.split[2] \in 0..31
          /\ codec.id = 44 => codec.split = <<1, 12>>
    /\ codec.op = "generate_id" =>
          /\ codec.id = codec.node_id * 32 + codec.opcode
          /\ codec.id <= 2047

C8_Witness ==
    /\ codec.op = "split_id"
    /\ codec.id = 44
    /\ codec.split = <<1, 12>>

-----------------------------------------------------------------------------
(* Properties of the driver (checked under Spec).                          *)

NoHeartbeatError ==
    Exc("HeartbeatError", "Error: No heartbeat message received.")
HeartbeatTimeoutError ==
    Exc("HeartbeatError", "Error: Heartbeat message timeout.")

\* C9: check_alive fails with the no-heartbeat error iff no Heartbeat has
\* been dispatched; otherwise it fails with the heartbeat-timeout error iff
\* more than 0.5 s has passed since the last dispatched Heartbeat; otherwise
\* it succeeds.  It changes nothing.
C9_CheckAlive ==
    call.op = "check_alive" =>
        /\ call.result = NoHeartbeatError <=> ~hb_seen
        /\ hb_seen =>
              (call.result = HeartbeatTimeoutError
                  <=> now - hb_seen_at > HEARTBEAT_TIMEOUT)
        /\ (hb_seen /\ now - hb_seen_at <= HEARTBEAT_TIMEOUT) =>
              call.result = Returned
        /\ call.pre = Snapshot

C9_Witness ==
    /\ call.op = "check_alive"
    /\ hb_seen
    /\ now - hb_seen_at = HEARTBEAT_TIMEOUT + 1
    /\ call.result = HeartbeatTimeoutError

\* C10: assigning io_state or a pin's state while no Heartbeat was ever
\* received, or the last one is older than 0.5 s, raises the liveness error
\* and hands no frame to bus.send.
C10_OutputGated ==
    (/\ call.op \in {"io_state", "pin_state"}
     /\ (~hb_seen \/ now - hb_seen_at > HEARTBEAT_TIMEOUT)) =>
        /\ call.result \in {NoHeartbeatError, HeartbeatTimeoutError}
        /\ sent = call.pre.sent

C10_Witness ==
    /\ call.op = "pin_state"
    /\ hb_seen
    /\ now - hb_seen_at > HEARTBEAT_TIMEOUT
    /\ call.result = HeartbeatTimeoutError
    /\ sent = call.pre.sent

-----------------------------------------------------------------------------
(* Properties of start(), stop() and the output command (checked under     *)
(* Spec).                                                                  *)

\* the device is alive: a Heartbeat was dispatched at most 0.5 s ago
DeviceAlive == hb_seen /\ now - hb_seen_at <= HEARTBEAT_TIMEOUT

\* the frame the output command is to send for the value v
SetIoFrame(v) ==
    [arbitration_id |-> NODE_ID * 32 + 3, data |-> <<v>>,
     is_extended_id |-> FALSE]

\* C11: assigning io_state = v while the device is alive returns without
\* error and hands exactly one frame to bus.send: standard identifier
\* (node_id << 5) | 3, data the single byte v.
C11_SendsOneFrame ==
    (call.op = "io_state" /\ DeviceAlive) =>
        /\ call.result = Returned
        /\ \E v \in IoSamples : sent = Append(call.pre.sent, SetIoFrame(v))

\* a Heartbeat has been dispatched since start() was called
HeartbeatSinceStart == hb_seen /\ hb_seen_at >= start.since

\* every frame handed to the dispatch task carries this driver's node_id
OnlyOwnFrames ==
    /\ \A i \in 1..Len(loop_calls) : loop_calls[i][1] \div 32 = NODE_ID
    /\ \A i \in 1..Len(_msg_queue) : _msg_queue[i][1] \div 32 = NODE_ID

StartReturns == start.pc = "waiting" /\ start'.pc = "returned"
StartFails == start.pc = "waiting" /\ start'.pc = "failed"

\* C12: start() returns only after a Heartbeat frame of this node has been
\* dispatched following the start request; at the moment it returns
\* last_heartbeat is not None and check_alive() succeeds; frames of other
\* nodes never reach the dispatch task.
C12_StartReturnsAlive ==
    [][/\ OnlyOwnFrames
       /\ StartReturns =>
             /\ HeartbeatSinceStart'
             /\ _last_heartbeat' # None
             /\ check_alive' = Returned]_vars

\* the part of C12 that does not depend on the time start() is resumed
C12_StartAfterHeartbeat ==
    [][/\ OnlyOwnFrames
       /\ StartReturns =>
             /\ HeartbeatSinceStart'
             /\ _last_heartbeat' # None
             /\ stop.calls = 0 /\ stop.pc = "idle" => check_alive' = Returned
      ]_vars

NotStopped == stop.calls = 0 /\ stop.pc = "idle"

\* C13: start() fails only when 1.0 s has passed since the call with no
\* Heartbeat dispatched, and it waits no longer than that; it returns only
\* on a Heartbeat dispatched within that time.  After the failure the
\* receive thread and the dispatch task are still alive and _running is
\* still set (until stop() is called), and a Heartbeat dispatched later is
\* recorded.
C13_StartTimeout ==
    /\ [](NotStopped /\ start.pc = "waiting"
            => now - start.since <= WAIT_FOR_HEARTBEAT_TIMEOUT)
    /\ []((NotStopped /\ start.pc = "failed")
            => _running /\ ThreadAlive /\ _msg_task = "alive")
    /\ [](hb_seen => /\ _last_heartbeat # None
                     /\ _last_heartbeat_time = hb_seen_at)
    /\ [][/\ StartFails =>
                /\ now - start.since >= WAIT_FOR_HEARTBEAT_TIMEOUT
                /\ ~HeartbeatSinceStart
          /\ StartReturns =>
                /\ HeartbeatSinceStart
                /\ hb_seen_at <= start.since + WAIT_FOR_HEARTBEAT_TIMEOUT
         ]_vars

C13_Witness ==
    /\ start.pc = "failed"
    /\ NotStopped
    /\ hb_seen
    /\ hb_seen_at > start.since + WAIT_FOR_HEARTBEAT_TIMEOUT
    /\ _last_heartbeat_time = hb_seen_at
    /\ _heartbeat_event

\* what stop() is to leave behind: not running, dispatch task finished (or
\* never created), receive thread ended, bus shut down
Stopped(task) ==
    [running |-> FALSE, task |-> task, thread_alive |-> FALSE,
     bus_shutdown |-> TRUE]

\* C14: a second or later call of stop() raises no error and leaves the
\* driver as the first call left it: not running, dispatch task finished,
\* receive thread ended, bus shut down.
C14_StopIdempotent ==
    (call.op = "stop" /\ stop.calls >= 2) =>
        /\ call.result = Returned
        /\ StopState = stop.first
        /\ stop.first \in {Stopped("none"), Stopped("done")}

\* C15: when stop() returns the receive thread has ended, the dispatch
\* task is finished and the bus is shut down.
C15_StopComplete ==
    call.op = "stop" =>
        /\ ~_running
        /\ ~ThreadAlive
        /\ _msg_task \in {"none", "done"}
        /\ bus_shutdown

\* what stop() does achieve on return, the receive thread left aside
StopExceptThread ==
    call.op = "stop" =>
        /\ call.result = Returned
        /\ ~_running
        /\ _msg_task \in {"none", "done"}
        /\ bus_shutdown
        /\ ThreadAlive => now - stop.since >= JOIN_TIMEOUT

-----------------------------------------------------------------------------
(* Properties of the pins and their signals (checked under PinSpec).       *)

Signal(e) == pins[WaitPin][e]
WokenOn(e) == {w \in Waiters : waiters[w].pc = "woken" /\ waiters[w].ev = e}
SuspendedOn(e) ==
    {w \in Waiters : waiters[w].pc = "suspended" /\ waiters[w].ev = e}

\* C17: a signal set while tasks are suspended in its wait() stays set
\* until each of them has resumed (a woken task always finds it set, and
\* the waiter count covers every task inside wait()), and it is clear once
\* the last of them has resumed.
C17_AutoClear ==
    /\ [](\A e \in EventNames :
            /\ WokenOn(e) # {} => Signal(e).flag
            /\ Signal(e)._active_waiters
                  = Cardinality(WokenOn(e) \cup SuspendedOn(e))
            /\ Signal(e).flag => SuspendedOn(e) = {})
    /\ [][\A e \in EventNames :
            (WokenOn(e) # {} /\ WokenOn(e)' = {}) => ~Signal(e)'.flag]_vars

\* two tasks were suspended on the signal when it was set; one has resumed,
\* the other has not, and the signal is still set
C17_Witness ==
    \E e \in EventNames :
        /\ Signal(e).flag
        /\ Signal(e)._active_waiters = 1
        /\ waiters[1].ev = e /\ waiters[1].pc = "idle" /\ waiters[1].n = 1
        /\ waiters[2].ev = e /\ waiters[2].pc = "woken"
        /\ hist[e] = 1

\* C18: no edge is missed and none is counted twice: a task that has been
\* looping on wait() of a signal since before the first update and is
\* suspended again, with the signal clear, has counted exactly the edges of
\* its kind (change, rising, falling).
C18_NoEdgeMissed ==
    \A w \in Waiters :
        (/\ waiters[w].from = 0
         /\ waiters[w].pc = "suspended"
         /\ ~Signal(waiters[w].ev).flag)
            => waiters[w].n = hist[waiters[w].ev]

\* the same for a task that waits alone and resumes between the updates
C18_UndisturbedWaiter ==
    [][(/\ waiters[1].from = 0
        /\ hist'.updates # hist.updates
        /\ waiters[2].from < 0
        /\ waiters[1].pc = "suspended" /\ waiters[1].n = hist[waiters[1].ev])
         => (waiters'[1].pc = "woken") = (hist'[waiters[1].ev] # hist[waiters[1].ev])
      ]_vars

Bit(io, i) == BitAnd(io, ShiftLeft(1, i)) # 0

\* C19: an update leaves a pin whose level does not change untouched; for
\* a pin whose level changes it stores the new level, keeps the old one as
\* previous level, raises the change signal and exactly the signal of the
\* direction: high_event for a rising edge, low_event for a falling one,
\* the other signal being left as it was.
C19_PinUpdate ==
    [][hist'.updates # hist.updates =>
         \A i \in PinNumbers :
            LET new == Bit(_io_state', i)
            IN  IF new = pins[i]._state
                THEN pins'[i] = pins[i]
                ELSE /\ pins'[i]._state = new
                     /\ pins'[i]._previous_state = pins[i]._state
                     /\ pins'[i].change_event.flag
                     /\ pins'[i].change_event._active_waiters
                           = pins[i].change_event._active_waiters
                     /\ IF new
                        THEN /\ pins'[i].high_event
                                  = EventSet(pins[i].high_event)
                             /\ pins'[i].low_event = pins[i].low_event
                        ELSE /\ pins'[i].low_event
                                  = EventSet(pins[i].low_event)
                             /\ pins'[i].high_event = pins[i].high_event
      ]_vars

\* a falling edge of pin 0 seen by a task on low_event while a task on
\* high_event stays suspended, pin 7 never touched
C19_Witness ==
    /\ hist.updates >= 2
    /\ ~pins[0]._state /\ pins[0]._previous_state
    /\ pins[0].low_event.flag
    /\ ~pins[0].high_event.flag
    /\ waiters[1].ev = "low_event" /\ waiters[1].pc = "woken"
    /\ waiters[2].ev = "high_event" /\ waiters[2].pc = "suspended"
    /\ pins[7] = NewPin(7)

-----------------------------------------------------------------------------
(* Properties of the driver against the mock (checked under LoopbackSpec). *)

\* C16: the waits in flight when stop() runs are woken or cancelled: when
\* stop() returns no task is suspended on a signal of a pin, and start() is
\* never suspended on the heartbeat wait beyond its timeout.
C16_WaitsCancelled ==
    /\ call.op = "stop" => \A w \in Waiters : waiters[w].pc # "suspended"
    /\ start.pc = "waiting"
          => now - start.since <= WAIT_FOR_HEARTBEAT_TIMEOUT

\* more than a second ago the host set pin 0 high on a started driver with
\* the device alive; the driver has not been stopped and the mock has been
\* given no command of its own
SetHighSettled ==
    /\ NotStopped
    /\ start.pc = "returned"
    /\ mock.commands = 0
    /\ hist.set_high_at >= 0
    /\ now - hist.set_high_at > MESSAGE_TIMEOUT

\* C20: against a peer that sends a Heartbeat every period and applies
\* SetIoState, start() succeeds within 1 s, and within 1 s after the host
\* has set pin 0 high the peer's io_state is 0x01, the driver's pin 0 is
\* high, the task waiting on the rising signal of pin 0 has been woken and
\* the signal is clear again.
C20_Loopback ==
    /\ NotStopped => start.pc # "failed"
    /\ (NotStopped /\ start.pc = "waiting")
          => now - start.since < WAIT_FOR_HEARTBEAT_TIMEOUT
    /\ SetHighSettled
          => /\ mock._io_state = 1
             /\ pins[WaitPin]._state
             /\ waiters[1].pc = "idle"
             /\ waiters[1].n > 0 => ~pins[WaitPin].high_event.flag

\* the part of C20 that concerns start()
C20_StartSucceeds ==
    /\ NotStopped => start.pc # "failed"
    /\ (NotStopped /\ start.pc = "waiting")
          => now - start.since < WAIT_FOR_HEARTBEAT_TIMEOUT

-----------------------------------------------------------------------------
(* Properties of intake and dispatch (checked under IntakeSpec and Spec).  *)

\* the (identifier, bytes) pair intake hands over for a frame
Pair(frame) == <<frame.arbitration_id, frame.data>>

\* is the frame for this node and not a remote request?
ForThisNode(frame) ==
    frame.arbitration_id \div 32 = NODE_ID /\ ~frame.is_remote_frame

\* a step of the receive thread in which bus.recv returned a frame
ReceivedStep == Len(hist'.received) = Len(hist.received) + 1
LastReceived == hist'.received[Len(hist'.received)]

\* the pairs intake has accepted, in the order of reception
RECURSIVE AcceptedPairs(_)
AcceptedPairs(received) ==
    IF received = <<>> THEN <<>>
    ELSE LET r == Head(received)
         IN  (IF ForThisNode(r.frame) /\ r.running THEN <<Pair(r.frame)>>
              ELSE <<>>) \o AcceptedPairs(Tail(received))

\* C22: the frames dispatched so far, followed by the frames still in the
\* queue and by those handed to the event loop and not yet put, are exactly
\* the frames accepted by intake, in the order of reception: the dispatched
\* frames are a prefix of the accepted ones, none twice, none skipped.
C22_ReceiveOrder ==
    hist.applied \o _msg_queue \o loop_calls = AcceptedPairs(hist.received)

\* two accepted frames are pending and a third has been dispatched
C22_Witness ==
    /\ Len(hist.applied) >= 1
    /\ Len(_msg_queue) + Len(loop_calls) = 2
    /\ _msg_queue # <<>> /\ loop_calls # <<>>
    /\ Head(_msg_queue) # Head(loop_calls)

\* C21: in a step in which the receive thread has received a frame while
\* the driver is running, the frame is handed to the dispatch path, with
\* its identifier and data unchanged, if and only if its node_id
\* (identifier >> 5) is the driver's and it is not a remote request;
\* a frame received after stop() has cleared the running flag is not handed
\* over; in either case the step changes neither the queue nor the session.
C21_IntakeFilter ==
    [][ReceivedStep =>
         /\ loop_calls' =
               IF ForThisNode(LastReceived.frame) /\ LastReceived.running
               THEN Append(loop_calls, Pair(LastReceived.frame))
               ELSE loop_calls
         /\ UNCHANGED <<_msg_queue, sessionVars>>
      ]_vars

\* a frame of another node and a remote request have been received and
\* dropped, a frame of this node has been received and handed over
C21_Witness ==
    /\ \E i \in DOMAIN hist.received :
          hist.received[i].frame.arbitration_id \div 32 # NODE_ID
    /\ \E i \in DOMAIN hist.received :
          hist.received[i].frame.is_remote_frame
    /\ \E i \in DOMAIN hist.received :
          /\ ForThisNode(hist.received[i].frame)
          /\ loop_calls = <<Pair(hist.received[i].frame)>>
    /\ hist.applied = <<>> /\ _msg_queue = <<>>

\* a step of the dispatch task: it takes the head of the queue
DispatchStep == _msg_queue # <<>> /\ _msg_queue' = Tail(_msg_queue)

\* the pins after an update with io: level from the bit; on a change the
\* old level is kept as previous level, the change signal and the signal of
\* the direction are set; no other signal changes
PinsFollow(io) ==
    \A i \in PinNumbers :
       LET level == (io \div (2 ^ i)) % 2 = 1
           edge == level # pins[i]._state
       IN  /\ pins'[i]._state = level
           /\ pins'[i]._previous_state =
                 IF edge THEN pins[i]._state ELSE pins[i]._previous_state
           /\ pins'[i].change_event.flag
                 = (edge \/ pins[i].change_event.flag)
           /\ pins'[i].high_event.flag
                 = ((edge /\ level) \/ pins[i].high_event.flag)
           /\ pins'[i].low_event.flag
                 = ((edge /\ ~level) \/ pins[i].low_event.flag)

\* C23: the step that dispatches a Heartbeat frame (opcode 1, 5 bytes:
\* device_type, io_dir, io_state, errors, counter) sets
\* last_heartbeat to the decoded message, the heartbeat timestamp to the
\* current time, io_state to the io_state byte, the 8 pins and their
\* signals accordingly, and the device-alive signal.
C23_HeartbeatDispatch ==
    [][(DispatchStep /\ IsHeartbeatFrame(Head(_msg_queue))) =>
         LET data == Head(_msg_queue)[2]
         IN  /\ _last_heartbeat' = Msg("HeartbeatMessage", data)
             /\ _last_heartbeat_time' = now
             /\ _io_state' = data[3]
             /\ PinsFollow(data[3])
             /\ _heartbeat_event'
      ]_vars

\* a Heartbeat reporting pin 0 high has been dispatched after the clock
\* has moved on: timestamp, io_state, pin 0 and the signals show it
C23_Witness ==
    /\ _last_heartbeat = Msg("HeartbeatMessage", <<1, 0, 1, 0, 7>>)
    /\ _last_heartbeat_time = now /\ now > EpochStart
    /\ _io_state = 1
    /\ pins[0]._state /\ pins[0].high_event.flag
    /\ pins[0].change_event.flag
    /\ _heartbeat_event

\* does the item look like an IoState frame on the wire?
IsIoStateFrame(item) == item[1] % 32 = 2 /\ Len(item[2]) = 1

\* C24: the step that dispatches an IoState frame (opcode 2, 1 byte) sets
\* io_state, the 8 pins and their signals from that byte and leaves
\* last_heartbeat, the heartbeat timestamp and the device-alive signal
\* unchanged.
C24_IoStateDispatch ==
    [][(DispatchStep /\ IsIoStateFrame(Head(_msg_queue))) =>
         LET data == Head(_msg_queue)[2]
         IN  /\ _io_state' = data[1]
             /\ PinsFollow(data[1])
             /\ UNCHANGED <<_last_heartbeat, _last_heartbeat_time,
                            _heartbeat_event>>
      ]_vars

\* the part of C24 that concerns liveness
C24_NoLiveness ==
    [][(DispatchStep /\ IsIoStateFrame(Head(_msg_queue))) =>
         UNCHANGED <<_last_heartbeat, _last_heartbeat_time,
                     _heartbeat_event>>
      ]_vars

\* decode_message fails on the item (unknown opcode or wrong length)
DecodeFails(item) == decode_message(item[1], item[2]).err # "none"

\* C25: the step that dispatches a frame whose decoding fails drops that
\* frame only: last_heartbeat, the heartbeat timestamp, io_state, the pins
\* and all signals are unchanged, the frames queued after it stay queued
\* and the dispatch task is still running to take them.
C25_DecodeIsolated ==
    [][(DispatchStep /\ DecodeFails(Head(_msg_queue))) =>
         /\ UNCHANGED sessionVars
         /\ _msg_queue' = Tail(_msg_queue)
         /\ _msg_task' = "alive" /\ _running'
      ]_vars

\* a frame that does not decode has been dispatched, and the Heartbeat
\* queued behind it has been dispatched after it
C25_Witness ==
    /\ Len(hist.applied) = 2
    /\ DecodeFails(hist.applied[1])
    /\ IsHeartbeatFrame(hist.applied[2])
    /\ _last_heartbeat = Msg("HeartbeatMessage", hist.applied[2][2])
    /\ _io_state = 1

\* C26: at every moment at most one receive loop and at most one dispatch
\* task of the driver are running, whatever calls of start() were made.
C26_SingleIntake == IntakeLoops <= 1 /\ DispatchTasks <= 1

\* the part of C26 that holds: with a single call of start()
C26_SingleStart ==
    start.spawned <= 1 => (IntakeLoops <= 1 /\ DispatchTasks <= 1)

\* C27: the hand-off queue has a capacity (for asyncio.Queue a maxsize
\* above 0) and the pairs it holds never exceed it.
C27_QueueBounded ==
    _msg_queue # <<>>
       => (Queue_maxsize > 0 /\ Len(_msg_queue) <= Queue_maxsize)

\* the level of every pin is its bit of io_state
PinsMirrorIoState ==
    \A i \in PinNumbers : pins[i]._state = ((_io_state \div (2 ^ i)) % 2 = 1)

\* C28: between dispatch steps the level of pins[i] is bit i of io_state
\* for i in 0..7, and io_state is the io_state field of the Heartbeat or
\* IoState frame dispatched last (0 before any).
C28_IoStateIsLastReport ==
    /\ PinsMirrorIoState
    /\ _io_state = IF hist.last_io < 0 THEN 0 ELSE hist.last_io

\* the part of C28 that concerns the pins
C28_PinsFollowIoState == PinsMirrorIoState

-----------------------------------------------------------------------------
(* Who writes the session (checked under LoopbackSpec).                    *)

\* a step in which a task calls check_alive() or assigns io_state or the
\* state of a pin
HostCallStep ==
    call' # call /\ call'.op \in {"check_alive", "io_state", "pin_state"}

\* io_state, levels and previous levels of the pins, last_heartbeat and
\* the heartbeat timestamp
SessionData ==
    <<_io_state, [i \in PinNumbers |-> pins[i]._state],
      [i \in PinNumbers |-> pins[i]._previous_state],
      _last_heartbeat, _last_heartbeat_time>>

\* the edge signals of the pins
EdgeSignals ==
    [i \in PinNumbers |-> [e \in EventNames |-> pins[i][e].flag]]

\* the step changes no level and no previous level and sets no signal
OnlyClears ==
    \A i \in PinNumbers :
       /\ pins'[i]._state = pins[i]._state
       /\ pins'[i]._previous_state = pins[i]._previous_state
       /\ \A e \in EventNames : pins'[i][e].flag => pins[i][e].flag

\* C29 as stated: the host calls leave io_state, levels, previous levels,
\* edge signals, last_heartbeat and the heartbeat timestamp unchanged, and
\* only a step of the dispatch task changes any of them.
C29_SingleWriter ==
    [][/\ HostCallStep
             => UNCHANGED <<_io_state, pins, _last_heartbeat,
                            _last_heartbeat_time>>
       /\ (\/ <<_io_state, _last_heartbeat, _last_heartbeat_time>>'
                 # <<_io_state, _last_heartbeat, _last_heartbeat_time>>
           \/ (pins' # pins /\ <<SessionData, EdgeSignals>>'
                                  # <<SessionData, EdgeSignals>>))
             => DispatchStep
      ]_vars

\* C29 as it holds: the host calls (check_alive, the assignment of a pin
\* state and, through it, of io_state) leave all of these unchanged; only
\* a step of the dispatch task changes io_state, a level, a previous
\* level, last_heartbeat or the timestamp, or sets an edge signal; an edge
\* signal is cleared only in a step in which a task returns from wait().
C29_WritersOfSession ==
    [][/\ HostCallStep
             => UNCHANGED <<_io_state, pins, _last_heartbeat,
                            _last_heartbeat_time>>
       /\ <<_io_state, _last_heartbeat, _last_heartbeat_time>>'
             # <<_io_state, _last_heartbeat, _last_heartbeat_time>>
             => DispatchStep
       /\ (pins' # pins /\ ~DispatchStep)
             => /\ OnlyClears
                /\ EdgeSignals' # EdgeSignals
                      => \E w \in Waiters : waiters'[w].n = waiters[w].n + 1
      ]_vars

\* with the device alive and pin 0 reported low, a task has assigned pin 0
\* high: the session still shows what the device reported
C29_Witness ==
    /\ call.op = "pin_state"
    /\ call.result.exc # "HeartbeatError"
    /\ _last_heartbeat # None /\ _last_heartbeat_time = now
    /\ _io_state = 0 /\ ~pins[0]._state
    /\ pins[7].change_event.flag = FALSE

-----------------------------------------------------------------------------
(* Termination of the receive loop (checked under Spec).                   *)

\* C30: the receive thread is never inside bus.recv for longer than the
\* 1.0 s timeout, and once stop() has cleared the running flag it does not
\* enter bus.recv again: from the top of the loop it ends, from bus.recv it
\* ends after that one call has returned.
C30_ReceiveLoopStops ==
    /\ [](_receive_thread.pc = "recv"
            => now - _receive_thread.since <= MESSAGE_TIMEOUT)
    /\ [][(~_running /\ _receive_thread' # _receive_thread)
            => /\ _receive_thread.pc = "loop"
                    => _receive_thread'.pc = "exited"
               /\ _receive_thread.pc = "recv"
                    => _receive_thread'.pc \in {"loop", "exited"}
          ]_vars

\* stop() has cleared the flag with the thread inside bus.recv; that call
\* has timed out and the thread has ended while stop() waits for it
C30_Witness ==
    /\ ~_running
    /\ stop.pc = "join" /\ now - stop.since >= 1
    /\ _receive_thread.pc = "exited"
    /\ timeout_warned
    /\ ~bus_shutdown

-----------------------------------------------------------------------------
(* The receive thread on a bus that falls silent and recovers, with the    *)
(* history of what the thread logged at each return of bus.recv.           *)

LogTicks == 12       \* ticks the clock runs on a silent bus
MaxLog == 4          \* returns of bus.recv the history keeps

\* variant of the logging that warns at every receive timeout
ReaderLog_level(msg) ==
    IF msg = NoFrame THEN "warning"
    ELSE IF timeout_warned THEN "info" ELSE "none"
\* what _can_reader_thread logs once bus.recv has returned msg: "can
\* timeout" at warning level, "message flow restored" at info level, or
\* nothing
ReaderLog(msg) ==
    IF msg = NoFrame
    THEN IF ~timeout_warned THEN "warning" ELSE "none"
    ELSE IF timeout_warned THEN "info" ELSE "none"

\* the traffic of this run: a Heartbeat of this node, a frame of another
\* node
LogFrames == {HeartbeatFrame(NODE_ID, 1), HeartbeatFrame(NODE_ID + 1, 1)}

\* bus.recv returns and _can_reader_thread runs the rest of the iteration;
\* the history keeps whether the call timed out and what was logged
LoggedIteration ==
    /\ _receive_thread.pc = "recv"
    /\ IF bus_shutdown
       THEN ReaderExit /\ UNCHANGED hist
       ELSE /\ Len(hist.log) < MaxLog
            /\ \E msg \in LogFrames \cup {NoFrame} :
                  /\ ReaderIteration(msg, MaxQueue)
                  /\ hist' = [hist EXCEPT !.log =
                                 Append(@, [timeout |-> msg = NoFrame,
                                            logged |-> ReaderLog(msg)])]
    /\ call' = NoCall
    /\ UNCHANGED codecVars
    /\ UNCHANGED <<now, _running, _msg_task, _msg_queue, sessionVars, sent,
                   bus_shutdown, hb_seen, hb_seen_at, start, stop, waiters,
                   peerVars>>

\* time passes, as in Tick, for as long as LogTicks
LogTick ==
    /\ now < EpochStart + LogTicks
    /\ ~TimerDue
    /\ _receive_thread.pc # "loop"
    /\ LoopBlocked \/ ~LoopReady
    /\ now' = now + 1
    /\ call' = NoCall
    /\ UNCHANGED codecVars
    /\ UNCHANGED <<_running, _receive_thread, _msg_task, timeout_warned,
                   loop_calls, _msg_queue, sessionVars, sent, bus_shutdown,
                   hb_seen, hb_seen_at, start, stop, testVars>>

LogNext ==
    \/ LogTick
    \/ StartCall
    \/ StartReturn
    \/ StartTimeout
    \/ CanReaderRecv
    \/ LoggedIteration
    \/ LoopRunPut
    \/ MessageHandlerStep
    \/ MsgTaskExit
    \/ StopCall
    \/ StopJoin
    \/ StopReturn

\* the receive thread and its log
LogSpec == Init /\ [][LogNext]_vars

\* C31: receive-timeout logging is edge-triggered.  Of the returns of
\* bus.recv in one run of the receive thread, a timeout is logged with a
\* warning exactly when it is the first return or follows a frame, a frame
\* is logged with the recovery notice exactly when it follows a timeout,
\* and nothing else is logged: a run of consecutive timeouts gives one
\* warning, the frame that ends it one notice.
C31_EdgeTriggeredLog ==
    \A i \in 1..Len(hist.log) :
       LET r == hist.log[i]
           after_timeout == i > 1 /\ hist.log[i - 1].timeout
       IN  /\ r.logged = "warning" <=> (r.timeout /\ ~after_timeout)
           /\ r.logged = "info" <=> (~r.timeout /\ after_timeout)
           /\ r.logged \in {"warning", "info", "none"}

\* two timeouts in a row, then a frame, then a frame: one warning, nothing,
\* one notice, nothing
C31_Witness ==
    /\ Len(hist.log) = 4
    /\ hist.log[1].timeout /\ hist.log[1].logged = "warning"
    /\ hist.log[2].timeout /\ hist.log[2].logged = "none"
    /\ ~hist.log[3].timeout /\ hist.log[3].logged = "info"
    /\ ~hist.log[4].timeout /\ hist.log[4].logged = "none"

-----------------------------------------------------------------------------
(* Signals that are raised while no task waits on them.                    *)

\* the signal e of the pin is set and no task is inside wait() on it
Latched(e) == Signal(e).flag /\ Signal(e)._active_waiters = 0

\* the tasks that call wait() on the signal e in this step
Callers(e) ==
    {w \in Waiters : /\ waiters[w].ev = e
                     /\ waiters[w].pc = "idle"
                     /\ waiters'[w] # waiters[w]}

\* C32: a signal raised by an update while no task is waiting on it stays
\* set until the next wait() on it; that call returns at once, without
\* suspending the task, and leaves the signal clear.
C32_LatchedUntilWaited ==
    [][\A e \in EventNames :
          Latched(e) =>
             IF Callers(e) = {}
             THEN pins'[WaitPin][e].flag
             ELSE /\ \A w \in Callers(e) :
                        /\ waiters'[w].pc = "idle"
                        /\ waiters'[w].n = waiters[w].n + 1
                  /\ ~pins'[WaitPin][e].flag
                  /\ pins'[WaitPin][e]._active_waiters = 0]_vars

\* a task whose first wait() came after the update that raised its signal
\* and returned at once: the signal is clear again
C32_Witness ==
    \E w \in Waiters :
       /\ waiters[w].n = 1
       /\ waiters[w].pc = "idle"
       /\ waiters[w].from = hist.updates
       /\ hist[waiters[w].ev] >= 1
       /\ ~Signal(waiters[w].ev).flag
       /\ \A v \in Waiters \ {w} : waiters[v].from < 0

-----------------------------------------------------------------------------
(* Output commands issued through a pin.                                   *)

\* io_state as the driver held it when the call was made
IoStateBefore == call.pre.session[4]

\* the value with bit n replaced by v, the other bits kept
WithBit(value, n, v) == IF v THEN set_bit(value, n) ELSE clear_bit(value, n)

\* C33: assigning Pin.state = v on pin n while the device is alive sends
\* exactly one SetIoState frame; its value is the driver's io_state (as last
\* reported by the device) with bit n replaced by v and the other bits
\* unchanged.
C33_PinCommand ==
    (call.op = "pin_state" /\ DeviceAlive) =>
        /\ call.result = Returned
        /\ \E n \in PinSamples, v \in BOOLEAN :
              sent = Append(call.pre.sent,
                            SetIoFrame(WithBit(IoStateBefore, n, v)))

-----------------------------------------------------------------------------
(* What the waiting tasks observe.                                         *)

\* C34: a single raise of an auto-clearing signal is observed at most once
\* by any one task: wait() has returned to a task at most as many times as
\* its signal has been raised, so a task that calls wait() again right after
\* a return suspends until the next raise, also while other waiters of the
\* same raise have not resumed yet.
C34_ObservedOnce ==
    \A w \in Waiters : waiters[w].n <= hist[waiters[w].ev]

\* the level a return of wait() on the signal e stands for
LevelOf(e) == e = "high_event"

\* the tasks to which wait() returns in this step
Returning == {w \in Waiters : waiters'[w].n = waiters[w].n + 1}

\* the tasks that this step wakes
Woken == {w \in Waiters : /\ waiters[w].pc = "suspended"
                          /\ waiters'[w].pc = "woken"}

\* C35 as claimed: whenever wait() on the rising signal of a pin returns the
\* pin is high at that moment, and whenever wait() on its falling signal
\* returns the pin is low, whatever the interleaving of updates and waiters.
C35_LevelAtReturn ==
    [][\A w \in Returning :
          waiters[w].ev # "change_event"
             => pins'[WaitPin]._state = LevelOf(waiters[w].ev)]_vars

\* C35: the rising signal of a pin is raised only by an update that makes
\* the pin high, the falling signal only by one that makes it low; a task
\* suspended in wait() on one of them is woken in a step that leaves the pin
\* at that level.
C35_LevelAtRaise ==
    [][/\ \A e \in {"high_event", "low_event"} :
             (~Signal(e).flag /\ pins'[WaitPin][e].flag)
                => /\ pins'[WaitPin]._state = LevelOf(e)
                   /\ pins[WaitPin]._state # LevelOf(e)
       /\ \A w \in Woken :
             waiters[w].ev # "change_event"
                => pins'[WaitPin]._state = LevelOf(waiters[w].ev)]_vars

\* a task woken from wait() on the rising signal while the pin is high, and
\* a task to which wait() on the falling signal returned although the pin
\* had gone high again
C35_Witness ==
    /\ waiters[1].ev = "high_event" /\ waiters[1].pc = "woken"
    /\ pins[WaitPin]._state
    /\ waiters[2].ev = "low_event" /\ waiters[2].n = 1
    /\ waiters[2].pc = "idle"
    /\ hist.low_event = 1 /\ hist.high_event = 2

-----------------------------------------------------------------------------
(* Waiting tasks that are cancelled: asyncio.wait_for on a timeout, or     *)
(* Task.cancel, raises CancelledError inside wait().                       *)

\* variant of the cancellation without the try/finally of wait(): the task
\* leaves and the count is not taken back
WaiterCancel_nofinally ==
    /\ ~LoopBlocked
    /\ \E w \in Waiters :
          /\ waiters[w].pc \in {"suspended", "woken"}
          /\ waiters' = [waiters EXCEPT ![w].pc = "cancelled"]
    /\ UNCHANGED <<pinFrame, _io_state, pins, hist>>
\* a task inside AutoClearEvent.wait() is cancelled: CancelledError is
\* raised at the await, the finally clause runs and the task leaves wait()
WaiterCancel ==
    /\ ~LoopBlocked
    /\ \E w \in Waiters :
          LET e == waiters[w].ev
          IN  /\ waiters[w].pc \in {"suspended", "woken"}
              /\ pins' = [pins EXCEPT ![WaitPin][e] = WaitDone(pins[WaitPin][e])]
              /\ waiters' = [waiters EXCEPT ![w].pc = "cancelled"]
    /\ UNCHANGED <<pinFrame, _io_state, hist>>

CancelNext ==
    \/ UpdateIoState
    \/ WaitCall
    \/ WaiterResume
    \/ WaiterCancel

\* pins and waiting tasks, some of which are cancelled
CancelSpec == PinInit /\ [][CancelNext]_vars

\* the tasks that are inside wait() on the signal e of pin i
Inside(i, e) ==
    IF i # WaitPin THEN {}
    ELSE {w \in Waiters : /\ waiters[w].ev = e
                          /\ waiters[w].pc \in {"suspended", "woken"}}

\* the tasks that leave wait() on the signal e in this step, by a return or
\* by cancellation
Leaving(e) ==
    {w \in Waiters :
        /\ waiters[w].ev = e
        /\ \/ waiters'[w].n = waiters[w].n + 1
           \/ waiters[w].pc # "cancelled" /\ waiters'[w].pc = "cancelled"}

\* C40: for every AutoClearEvent, _active_waiters is never negative and is
\* the number of tasks inside wait() on that event, also when waiters leave
\* by cancellation or timeout; and whenever a task leaving wait() brings the
\* counter to 0 the event is clear.
C40_WaiterCount ==
    /\ [](\A i \in PinNumbers, e \in EventNames :
             /\ pins[i][e]._active_waiters >= 0
             /\ pins[i][e]._active_waiters = Cardinality(Inside(i, e)))
    /\ [][\A e \in EventNames :
             (Leaving(e) # {} /\ pins'[WaitPin][e]._active_waiters = 0)
                => ~pins'[WaitPin][e].flag]_vars

\* two tasks were woken by one raise; one was cancelled, the other has
\* returned: the counter is back to 0 and the signal is clear
C40_Witness ==
    \E e \in EventNames :
       /\ waiters[1].ev = e /\ waiters[1].pc = "cancelled"
       /\ waiters[2].ev = e /\ waiters[2].pc = "idle" /\ waiters[2].n = 1
       /\ hist[e] = 1
       /\ waiters[1].from = 0 /\ waiters[2].from = 0
       /\ Signal(e)._active_waiters = 0
       /\ ~Signal(e).flag

-----------------------------------------------------------------------------
(* The hand-off around stop().                                             *)

\* C37: once stop() has set self._running to False no further frame is
\* handed to the hand-off queue: in no interleaving of the receive thread
\* with stop() does an enqueue happen after the flag was cleared.
C37_NoEnqueueAfterStop ==
    [][~_running => Len(_msg_queue') <= Len(_msg_queue)]_vars

-----------------------------------------------------------------------------
(* A transport that fails: bus.recv raises (the interface has gone down)   *)
(* while the receive thread is inside it.                                  *)

\* variant of the exception handler that also stops the driver
RecvRaises_stops ==
    /\ _receive_thread.pc = "recv"
    /\ ~bus_shutdown
    /\ _receive_thread' = [pc |-> "exited", since |-> 0]
    /\ _running' = FALSE
    /\ call' = NoCall
    /\ UNCHANGED codecVars
    /\ UNCHANGED <<now, _msg_task, timeout_warned, loop_calls, _msg_queue,
                   sessionVars, sent, bus_shutdown, hb_seen, hb_seen_at,
                   start, stop, testVars>>
\* bus.recv raises: the except clause of _can_reader_thread logs the error
\* (while self._running is set) and breaks out of the loop
RecvRaises ==
    /\ _receive_thread.pc = "recv"
    /\ ~bus_shutdown
    /\ _receive_thread' = [pc |-> "exited", since |-> 0]
    /\ call' = NoCall
    /\ UNCHANGED codecVars
    /\ UNCHANGED <<now, _running, _msg_task, timeout_warned, loop_calls,
                   _msg_queue, sessionVars, sent, bus_shutdown, hb_seen,
                   hb_seen_at, start, stop, testVars>>

FaultNext ==
    \/ Tick
    \/ StartCall
    \/ StartReturn
    \/ StartTimeout
    \/ CanReaderRecv
    \/ CanReaderIteration
    \/ RecvRaises
    \/ LoopRunPut
    \/ MessageHandlerStep
    \/ MsgTaskExit
    \/ StopCall
    \/ StopJoin
    \/ StopReturn
    \/ CheckAliveCall
    \/ SetIoStateCall
    \/ PinSetStateCall

\* the driver on a transport that can fail
FaultSpec == Init /\ [][FaultNext]_vars

\* the receive thread has ended and the driver has not been stopped
IntakeLost == _receive_thread.pc = "exited" /\ _running

\* nothing is left in the hand-off
HandOffEmpty == loop_calls = <<>> /\ _msg_queue = <<>>

\* C39: if bus.recv raises while the driver is running, the receive thread
\* ends for good and the driver is not stopped: self._running stays set and
\* the dispatch task stays alive; no further frame enters the hand-off, and
\* once the hand-off is empty the task stays suspended on the empty queue
\* and nothing of the session changes any more; from 0.5 s after the last
\* Heartbeat on, check_alive() and every output command fail with the
\* heartbeat-timeout error.
C39_IntakeLost ==
    /\ [][(ThreadAlive /\ _running /\ ~ThreadAlive')
             => (_running' /\ _msg_task' = "alive")]_vars
    /\ [][IntakeLost
             => /\ _receive_thread' = _receive_thread
                /\ Len(loop_calls') <= Len(loop_calls)
                /\ HandOffEmpty
                      => /\ loop_calls' = <<>> /\ _msg_queue' = <<>>
                         /\ sessionVars' = sessionVars]_vars
    /\ [](IntakeLost => _msg_task = "alive")
    /\ []((/\ IntakeLost
           /\ call.op \in {"check_alive", "io_state", "pin_state"}
           /\ _last_heartbeat # None
           /\ now - _last_heartbeat_time > HEARTBEAT_TIMEOUT)
             => call.result = HeartbeatTimeoutError)

\* the thread has ended on a failure of bus.recv after a Heartbeat was
\* dispatched, the queue is empty, and an output command made more than
\* 0.5 s later has failed
C39_Witness ==
    /\ IntakeLost
    /\ HandOffEmpty
    /\ ~bus_shutdown
    /\ _msg_task = "alive"
    /\ _last_heartbeat # None
    /\ now - _last_heartbeat_time > HEARTBEAT_TIMEOUT
    /\ call.op = "pin_state"
    /\ call.result = HeartbeatTimeoutError

-----------------------------------------------------------------------------
(* start() called on a driver that has been stopped.                       *)

MaxRestarts == 1     \* calls of start() after stop()

\* variant of start() that sets self._running again
Restart_rearm ==
    /\ stop.pc = "returned"
    /\ start.pc \in {"idle", "failed", "returned"}
    /\ hist.restarts < MaxRestarts
    /\ _running' = TRUE
    /\ _receive_thread' = [pc |-> "loop", since |-> 0]
    /\ _msg_task' = "alive"
    /\ _heartbeat_event' = FALSE
    /\ start' = [pc |-> "waiting", since |-> now,
                 spawned |-> start.spawned + 1]
    /\ hist' = [hist EXCEPT !.restarts = @ + 1]
    /\ call' = NoCall
    /\ UNCHANGED codecVars
    /\ UNCHANGED <<now, timeout_warned, loop_calls, _msg_queue,
                   _last_heartbeat, _last_heartbeat_time, _io_state, pins,
                   sent, bus_shutdown, hb_seen, hb_seen_at, stop, waiters,
                   peerVars>>
\* ICU.start up to its await, called after stop() has returned: a new
\* thread and a new task are spawned, self._running is left as stop() set
\* it, wait_for_heartbeat clears the event and suspends
Restart ==
    /\ stop.pc = "returned"
    /\ start.pc \in {"idle", "failed", "returned"}
    /\ hist.restarts < MaxRestarts
    /\ _receive_thread' = [pc |-> "loop", since |-> 0]
    /\ _msg_task' = "alive"
    /\ _heartbeat_event' = FALSE
    /\ start' = [pc |-> "waiting", since |-> now,
                 spawned |-> start.spawned + 1]
    /\ hist' = [hist EXCEPT !.restarts = @ + 1]
    /\ call' = NoCall
    /\ UNCHANGED codecVars
    /\ UNCHANGED <<now, _running, timeout_warned, loop_calls, _msg_queue,
                   _last_heartbeat, _last_heartbeat_time, _io_state, pins,
                   sent, bus_shutdown, hb_seen, hb_seen_at, stop, waiters,
                   peerVars>>

\* _message_handler finds self._running cleared at the top of its loop and
\* returns
MsgTaskReturn ==
    /\ ~LoopBlocked
    /\ _msg_task = "alive"
    /\ ~_running
    /\ _msg_task' = "done"
    /\ call' = NoCall
    /\ UNCHANGED codecVars
    /\ UNCHANGED <<now, _running, _receive_thread, timeout_warned, loop_calls,
                   _msg_queue, sessionVars, sent, bus_shutdown, hb_seen,
                   hb_seen_at, start, stop, testVars>>

\* time passes, as in Tick, once a task that is ready to return has run
RestartTick ==
    /\ ~(_msg_task = "alive" /\ ~_running /\ ~LoopBlocked)
    /\ Tick

RestartNext ==
    \/ RestartTick
    \/ StartCall
    \/ Restart
    \/ StartReturn
    \/ StartTimeout
    \/ CanReaderRecv
    \/ CanReaderIteration
    \/ LoopRunPut
    \/ MessageHandlerStep
    \/ MsgTaskReturn
    \/ MsgTaskExit
    \/ StopCall
    \/ StopJoin
    \/ StopReturn

\* the driver with start() called after stop()
RestartSpec == Init /\ [][RestartNext]_vars

\* start() has been called after stop()
Restarted == hist.restarts > 0

-----------------------------------------------------------------------------
(* The dispatch tasks of earlier calls of start(), followed beyond stop(). *)

\* dispatch tasks of earlier calls of start() that are still suspended in
\* queue.get(): stop() cancels only the task _msg_task refers to
OrphanTasks == start.spawned - 1 - hist.orphan_exits

\* after stop(), an item reaches the queue and wakes a task of an earlier
\* start(): the task resumes from queue.get(), dispatches the item, then
\* finds self._running cleared and returns
OrphanIteration ==
    /\ ~LoopBlocked
    /\ ~_running
    /\ OrphanTasks > 0
    /\ _msg_queue # <<>>
    /\ _msg_queue' = Tail(_msg_queue)
    /\ Dispatch(Head(_msg_queue))
    /\ hist' = [hist EXCEPT !.orphan_exits = @ + 1]
    /\ call' = NoCall
    /\ UNCHANGED codecVars
    /\ UNCHANGED <<now, _running, _receive_thread, _msg_task, timeout_warned,
                   loop_calls, sent, bus_shutdown, start, stop, peerVars>>

OrphanNext ==
    \/ Tick
    \/ StartCall
    \/ StartRetry
    \/ StartReturn
    \/ StartTimeout
    \/ CanReaderRecv
    \/ CanReaderIteration
    \/ LoopRunPut
    \/ MessageHandlerStep
    \/ OrphanIteration
    \/ MsgTaskExit
    \/ StopCall
    \/ StopJoin
    \/ StopReturn

\* the driver with start() called more than once, every task followed
OrphanSpec == Init /\ [][OrphanNext]_vars

\* C36: after stop() has returned the session state is frozen: io_state,
\* the pin levels, the edge signals, last_heartbeat and the heartbeat
\* timestamp never change again, whatever the transport delivered before or
\* during the stop and whatever is pending in the hand-off queue.
C36_FrozenAfterStop ==
    [][stop.calls > 0 =>
          /\ _io_state' = _io_state
          /\ _last_heartbeat' = _last_heartbeat
          /\ _last_heartbeat_time' = _last_heartbeat_time
          /\ pins' # pins =>
                /\ \A i \in PinNumbers : pins'[i]._state = pins[i]._state
                /\ EdgeSignals' = EdgeSignals]_vars

=============================================================================
